---- MODULE Spec2Model ----
(***************************************************************************)
(* Meal-scan redemption core of the mess backend: the scan handlers, the   *)
(* Subscription balance they debit and the MealTransaction ledger.         *)
(* Every storage call (await) of a handler is one step, so that concurrent *)
(* requests interleave exactly at the points where the code suspends.      *)
(***************************************************************************)
EXTENDS Integers, Sequences, FiniteSets, TLC

None == "none"

\* ---------------------------------------------------------------- bounds
MaxMeals == 2      \* largest lunch allocation of the initial subscription
MaxFaults == 1     \* storage calls that may fail in one behaviour
MaxBatch == 2      \* longest offline batch

\* ------------------------------------------------------------- constants
DaySecs == 86400
doubleScanWindowSeconds == 30
CustomerWindowSecs == 900

MealTypes == {"breakfast", "lunch", "dinner", "snack"}
TxnMealEnum == {"breakfast", "lunch", "dinner"}
TxnStatusEnum == {"success", "blocked", "failed", "duplicate"}
FailureReasonEnum == {"no_subscription", "subscription_expired",
                      "no_meals_remaining", "duplicate_scan",
                      "invalid_meal_window", "invalid_qr",
                      "customer_inactive", "subscription_paused"}

Procs == {"p1", "p2"}
StaffMess == "m1"
StaffId == "u1"

\* Customers are read-only for the redemption core.  c3 is a customer of
\* another mess.
Customer == [c1 |-> [messId |-> "m1", active |-> TRUE],
             c2 |-> [messId |-> "m1", active |-> FALSE],
             c3 |-> [messId |-> "m2", active |-> TRUE]]
\* the customers of the staff member's mess
CustomerIds == {c \in DOMAIN Customer : Customer[c].messId = StaffMess}
SubIds == {"s1"}

\* A scan credential as the handlers see it after decoding.
Tokens == {[cust |-> "c1", valid |-> TRUE],
           [cust |-> "c2", valid |-> TRUE],
           [cust |-> "c1", valid |-> FALSE]}

\* Sample instants of the server clock (seconds since day 0, 00:00):
\* day 1 at 12:00:00, 12:00:30, 16:30:00, 19:00:00, and day 2 at 12:00:00.
Yesterday == 12 * 3600
T0 == DaySecs + 12 * 3600
Times == {T0, T0 + 30, T0 + 16200, T0 + 25200, T0 + DaySecs}

DayOf(t) == t \div DaySecs
HourOf(t) == (t % DaySecs) \div 3600
MinuteOfDay(t) == (t % DaySecs) \div 60

\* getDefaultSettings().mealWindows, HH:MM as minutes of the day
mealWindows == [breakfast |-> [start |-> 390, end |-> 600],
                lunch |-> [start |-> 720, end |-> 900],
                dinner |-> [start |-> 1140, end |-> 1320]]

isTimeInWindow(m, w) == m >= w.start /\ m <= w.end

\* utils/subscriptionJobs.js determineMealType(config): server clock, HH:MM windows
determineMealType(t) ==
  IF isTimeInWindow(MinuteOfDay(t), mealWindows.breakfast) THEN "breakfast"
  ELSE IF isTimeInWindow(MinuteOfDay(t), mealWindows.lunch) THEN "lunch"
  ELSE IF isTimeInWindow(MinuteOfDay(t), mealWindows.dinner) THEN "dinner"
  ELSE None

\* utils/determineMealType.js: hour ranges
determineMealTypeByHour(t) ==
  IF HourOf(t) >= 6 /\ HourOf(t) < 11 THEN "breakfast"
  ELSE IF HourOf(t) >= 11 /\ HourOf(t) < 16 THEN "lunch"
  ELSE IF HourOf(t) >= 16 /\ HourOf(t) < 22 THEN "dinner"
  ELSE None

VARIABLES now, subs, txns, uniqueIdx, faults, lock, pc, req, batch,
          usedNonces, cache, loadedAt

vars == <<now, subs, txns, uniqueIdx, faults, lock, pc, req, batch,
          usedNonces, cache, loadedAt>>

\* ------------------------------------------------------ MealTransaction
\* Mongoose validation of a MealTransaction document (required, enum).
ValidTxn(d) ==
  /\ d.messId # None /\ d.customerId # None /\ d.subscriptionId # None
  /\ d.scannedByUserId # None /\ d.staffId # None /\ d.qrCodeId # None
  /\ d.mealType \in TxnMealEnum
  /\ d.status \in TxnStatusEnum
  /\ d.snap
  /\ d.failureReason \in FailureReasonEnum \cup {None}

\* The unique partial index idempotency_key {customerId, mealType, status}.
DupKey(d) ==
  /\ uniqueIdx
  /\ d.status = "success"
  /\ \E i \in DOMAIN txns : /\ txns[i].customerId = d.customerId
                            /\ txns[i].mealType = d.mealType
                            /\ txns[i].status = "success"

Draft(mess, cust, sub, staff, meal, status, qr, snap, reason, ts, dupOf) ==
  [messId |-> mess, customerId |-> cust, subscriptionId |-> sub,
   scannedByUserId |-> staff, staffId |-> staff, mealType |-> meal,
   status |-> status, qrCodeId |-> qr, snap |-> snap,
   failureReason |-> reason, timestamp |-> ts, dupOf |-> dupOf]

Stored(d) ==
  [customerId |-> d.customerId, subscriptionId |-> d.subscriptionId,
   mealType |-> d.mealType, status |-> d.status, timestamp |-> d.timestamp,
   failureReason |-> d.failureReason, dupOf |-> d.dupOf]

CanCreate(d) == ValidTxn(d) /\ ~DupKey(d)

\* ids of the success transactions matching a duplicate query
SuccessIds(cust, meal, from, to) ==
  {i \in DOMAIN txns : /\ txns[i].customerId = cust
                       /\ txns[i].mealType = meal
                       /\ txns[i].status = "success"
                       /\ txns[i].timestamp >= from
                       /\ txns[i].timestamp <= to}

Forever == 10 * DaySecs
DayStart(t) == DayOf(t) * DaySecs
DayEnd(t) == DayOf(t) * DaySecs + DaySecs - 1

MaxOf(S) == CHOOSE x \in S : \A y \in S : y <= x

\* ---------------------------------------------------------- Subscription
ActiveSubs(cust) == {s \in SubIds : subs[s].customerId = cust /\ subs[s].active}

\* the reason code `no_${mealType}_remaining`
NoRemaining(mt) == "no_" \o mt \o "_remaining"

NoRes == [status |-> None, reason |-> None, txn |-> 0]
Res(status, reason, txn) == [status |-> status, reason |-> reason, txn |-> txn]

\* the subscription document a handler holds in memory between its read and
\* its save()
NoDoc == [mealsTotal |-> 0, mealsRemaining |-> 0,
          mealBalances |-> [m \in MealTypes |-> 0], active |-> FALSE, endDay |-> 0]
Loaded(s) == [mealsTotal |-> subs[s].mealsTotal, mealsRemaining |-> subs[s].mealsRemaining,
              mealBalances |-> subs[s].mealBalances, active |-> subs[s].active,
              endDay |-> subs[s].endDay]

NoReq == [path |-> None, tok |-> [cust |-> None, valid |-> FALSE],
          mealType |-> None, sub |-> None, before |-> 0,
          override |-> FALSE, cts |-> 0, after |-> FALSE, saved |-> 0,
          doc |-> NoDoc, count |-> 0,
          res |-> NoRes]

\* a request that arrives when the other one has been answered
NewReq(p) == [NoReq EXCEPT !.after = (p = "p2" /\ pc["p1"] = "done")]

\* the request has been answered: what remains of it is which handler it
\* went through, its credential and options, the meal type and the result
Answered(r, res) ==
  [NoReq EXCEPT !.path = r.path, !.tok = r.tok, !.mealType = r.mealType,
                !.override = r.override, !.after = r.after, !.count = r.count,
                !.res = res]

Finish(p, r) ==
  /\ pc' = [pc EXCEPT ![p] = "done"]
  /\ req' = [req EXCEPT ![p] = Answered(req[p], r)]

\* Requests are interchangeable: the first one to arrive is called p1.
CanStart(p) == pc[p] = "idle" /\ (p = "p2" => pc["p1"] # "idle")

Goto(p, label, r) ==
  /\ pc' = [pc EXCEPT ![p] = label]
  /\ req' = [req EXCEPT ![p] = r]

\* ------------------------------------------------------------------ Init
InitBalances ==
  {b \in [MealTypes -> 0..MaxMeals] :
     b["breakfast"] = 0 /\ b["snack"] = 0 /\ b["dinner"] <= 1}

Sum4(b) == b["breakfast"] + b["lunch"] + b["dinner"] + b["snack"]

History == [customerId |-> "c1", subscriptionId |-> "s1", mealType |-> "lunch",
            status |-> "success", timestamp |-> Yesterday,
            failureReason |-> None, dupOf |-> 0]

NoCounts == [successCount |-> 0, blockedCount |-> 0, failedCount |-> 0]

NoBatch == [kind |-> None, scans |-> <<>>, i |-> 0, results |-> <<>>,
            state |-> "idle", round |-> 0, first |-> <<>>, counts |-> NoCounts,
            reordered |-> FALSE]

InitSubs ==
  \E b \in InitBalances, paused \in BOOLEAN :
    subs = [s \in SubIds |->
              [customerId |-> "c1", messId |-> "m1", active |-> TRUE,
               mealsTotal |-> Sum4(b), planAllocations |-> b,
               mealsRemaining |-> Sum4(b), mealBalances |-> b,
               pausedAt |-> paused, endDay |-> DayOf(T0) + 1,
               planMealTypes |-> {m \in MealTypes : m = "breakfast" \/ m = "lunch" \/ b[m] > 0}]]

\* the process has just started: no nonce seen, no settings loaded
NoNonces == [n \in {} |-> 0]
\* let cache = null
NoSettings == [mealWindows |-> None, doubleScanWindowSeconds |-> 0,
               alertThresholdMealsRemaining |-> 0, timezone |-> None]

InitCommon ==
  /\ InitSubs
  /\ txns \in {<<>>, <<History>>}
  /\ uniqueIdx \in BOOLEAN
  /\ lock = [s \in SubIds |-> None]
  /\ pc = [p \in Procs |-> "idle"]
  /\ req = [p \in Procs |-> NoReq]
  /\ batch = NoBatch
  /\ usedNonces = NoNonces
  /\ cache = NoSettings
  /\ loadedAt = 0

\* storage is healthy
Init == InitCommon /\ now = T0 /\ faults = 0

\* ----------------------------------------------------------------- clock
\* The sample instants are at least 30 s apart and a request takes
\* milliseconds: the clock moves between requests.
Tick ==
  /\ \A p \in Procs : pc[p] \in {"idle", "done"}
  /\ batch.state # "running"
  /\ \E t \in Times : t > now /\ now' = t
  /\ UNCHANGED <<subs, txns, uniqueIdx, faults, lock, pc, req, batch, usedNonces, cache, loadedAt>>

\* --------------------------------------- routes/scanCore.js  POST /scan
\* token handling and customer lookup (lines 62-101)
LiveBegin(p, tok) ==
  /\ CanStart(p)
  /\ LET r == [NewReq(p) EXCEPT !.path = "live", !.tok = tok] IN
       IF ~tok.valid
         THEN Goto(p, "done", Answered(r, Res("error", "INVALID_QR_SIGNATURE", 0)))
       ELSE IF ~(Customer[tok.cust].active /\ Customer[tok.cust].messId = StaffMess)
         THEN Goto(p, "done", Answered(r, Res("blocked", "invalid_qr", 0)))
       ELSE Goto(p, "live_sub", r)
  /\ UNCHANGED <<now, subs, txns, uniqueIdx, faults, lock, batch, usedNonces, cache, loadedAt>>

LiveStart(p) == \E tok \in Tokens : LiveBegin(p, tok)

\* subscription lookup, meal type and balance checks (lines 109-189)
LiveSub(p) ==
  /\ pc[p] = "live_sub"
  /\ LET cands == {s \in ActiveSubs(req[p].tok.cust) :
                     /\ subs[s].messId = StaffMess
                     /\ subs[s].endDay >= DayOf(now)}
         mt == IF determineMealType(now) = None THEN "lunch"
               ELSE determineMealType(now)
     IN IF cands = {}
          THEN Finish(p, Res("blocked", "no_active_subscription", 0))
        ELSE \E s \in cands :
          IF mt \notin DOMAIN subs[s].mealBalances
            THEN Finish(p, Res("blocked", "meal_type_not_allowed", 0))
          ELSE IF subs[s].mealBalances[mt] <= 0
            THEN Finish(p, Res("blocked", NoRemaining(mt), 0))
          ELSE Goto(p, "live_dup",
                    [req[p] EXCEPT !.sub = s, !.mealType = mt,
                                   !.before = subs[s].mealsRemaining])
  /\ UNCHANGED <<now, subs, txns, uniqueIdx, faults, lock, batch, usedNonces, cache, loadedAt>>

\* duplicate scan check, per customer per meal type per day (lines 191-232)
LiveDup(p) ==
  /\ pc[p] = "live_dup"
  /\ IF SuccessIds(req[p].tok.cust, req[p].mealType, DayStart(now), DayEnd(now)) # {}
       THEN Finish(p, Res("blocked", "duplicate_scan", 0))
       ELSE Goto(p, "live_dec", req[p])
  /\ UNCHANGED <<now, subs, txns, uniqueIdx, faults, lock, batch, usedNonces, cache, loadedAt>>

\* a filter that leaves out the two $gt conditions
liveCheckQueryNoGt(s, mt) ==
  /\ subs[s].messId = StaffMess
  /\ subs[s].active

\* the filter of the conditional update (lines 235-241)
liveCheckQuery(s, mt) ==
  /\ subs[s].messId = StaffMess
  /\ subs[s].active
  /\ subs[s].mealBalances[mt] > 0
  /\ subs[s].mealsRemaining > 0

\* an update that is applied whether or not the filter matches
liveUpdateUnconditional(s, mt) ==
  [subs EXCEPT ![s].mealBalances[mt] = @ - 1, ![s].mealsRemaining = @ - 1]

\* Subscription.findOneAndUpdate(checkQuery, {$inc: ...}) (lines 244-256):
\* the document is written only when the filter matches
liveFindOneAndUpdate(s, mt) ==
  IF liveCheckQuery(s, mt)
    THEN [subs EXCEPT ![s].mealBalances[mt] = @ - 1, ![s].mealsRemaining = @ - 1]
    ELSE subs

\* atomic conditional decrement (lines 234-271)
LiveDec(p) ==
  /\ pc[p] = "live_dec"
  /\ lock[req[p].sub] = None
  /\ LET s == req[p].sub
         mt == req[p].mealType
     IN /\ subs' = liveFindOneAndUpdate(s, mt)
        /\ IF liveCheckQuery(s, mt)
             THEN Goto(p, "live_txn", req[p])
             ELSE Finish(p, Res("failed", NoRemaining(mt), 0))
  /\ UNCHANGED <<now, txns, uniqueIdx, faults, lock, batch, usedNonces, cache, loadedAt>>

\* MealTransaction save (lines 279-293)
LiveTxn(p) ==
  /\ pc[p] = "live_txn"
  /\ LET d == Draft(StaffMess, req[p].tok.cust, req[p].sub, StaffId,
                    req[p].mealType, "success", req[p].tok.cust, TRUE,
                    None, now, 0)
     IN \/ /\ CanCreate(d)
           /\ txns' = Append(txns, Stored(d))
           /\ Goto(p, "live_notify", [req[p] EXCEPT !.saved = Len(txns) + 1])
           /\ UNCHANGED faults
        \/ /\ ~CanCreate(d)
           /\ Finish(p, Res("error", "SCAN_ERROR", 0))
           /\ UNCHANGED <<txns, faults>>
        \/ /\ faults > 0
           /\ faults' = faults - 1
           /\ Finish(p, Res("error", "SCAN_ERROR", 0))
           /\ UNCHANGED txns
  /\ UNCHANGED <<now, subs, uniqueIdx, lock, batch, usedNonces, cache, loadedAt>>

\* audit entry, notification, customer reload, socket event and response
\* (lines 295-372).  logAudit and createNotification swallow their
\* failures; Customer.findById and io.to(...).emit(...) are bare
\* statements of the handler's try block, whose catch answers 500 SCAN_ERROR.
LiveNotify(p) ==
  /\ pc[p] = "live_notify"
  /\ \/ /\ Finish(p, Res("success", None, req[p].saved))
        /\ UNCHANGED faults
     \/ /\ faults > 0
        /\ faults' = faults - 1
        /\ \/ Finish(p, Res("success", None, req[p].saved))
           \/ Finish(p, Res("error", "SCAN_ERROR", 0))
  /\ UNCHANGED <<now, subs, txns, uniqueIdx, lock, batch, usedNonces, cache, loadedAt>>

\* ------------------------------------- utils/mealScanner.js  MealScanner
\* createFailedTransaction: the record is written only when customer,
\* subscription and mess are known; the caller returns its promise without
\* awaiting it, so a rejected write rejects processScan itself.
FailedDraft(cust, sub, reason, dupOf) ==
  Draft(StaffMess, cust, sub, StaffId,
        IF determineMealType(now) = None THEN "unknown" ELSE determineMealType(now),
        IF reason = "duplicate_scan" THEN "blocked" ELSE "failed",
        "unknown", TRUE, reason, now, dupOf)

FailedStatus(reason) == IF reason = "duplicate_scan" THEN "blocked" ELSE "failed"

createFailedTransaction(p, cust, sub, reason, dupOf) ==
  LET d == FailedDraft(cust, sub, reason, dupOf) IN
  IF cust # None /\ sub # None
    THEN \/ /\ CanCreate(d)
            /\ txns' = Append(txns, Stored(d))
            /\ Finish(p, Res(FailedStatus(reason), reason, Len(txns) + 1))
            /\ UNCHANGED faults
         \/ /\ ~CanCreate(d)
            /\ Finish(p, Res("rejected", "ValidationError", 0))
            /\ UNCHANGED <<txns, faults>>
         \/ /\ faults > 0
            /\ faults' = faults - 1
            /\ Finish(p, Res("rejected", "storage_error", 0))
            /\ UNCHANGED txns
    ELSE /\ Finish(p, Res(FailedStatus(reason), reason, 0))
         /\ UNCHANGED <<txns, faults>>

\* steps 1-3: token, customer, meal type (lines 70-97)
MSBegin(p, tok, adminOverride) ==
  /\ CanStart(p)
  /\ LET r == [NewReq(p) EXCEPT !.path = "ms", !.tok = tok, !.override = adminOverride]
         mt == determineMealType(now)
     IN IF ~tok.valid
          THEN Goto(p, "done", Answered(r, Res("failed", "invalid_qr", 0)))
        ELSE IF ~Customer[tok.cust].active
          THEN Goto(p, "done", Answered(r, Res("failed", "customer_not_found", 0)))
        ELSE IF mt = None /\ ~adminOverride
          THEN Goto(p, "done", Answered(r, Res("failed", "invalid_meal_window", 0)))
        ELSE Goto(p, "ms_dup", [r EXCEPT !.mealType = IF mt = None THEN "lunch" ELSE mt])
  /\ UNCHANGED <<now, subs, txns, uniqueIdx, faults, lock, batch, usedNonces, cache, loadedAt>>

MSStart(p) == \E tok \in Tokens, o \in BOOLEAN : MSBegin(p, tok, o)

\* step 4: duplicate scan within doubleScanWindowSeconds (lines 99-111)
MSDup(p) ==
  /\ pc[p] = "ms_dup"
  /\ IF SuccessIds(req[p].tok.cust, req[p].mealType,
                   now - doubleScanWindowSeconds, Forever) # {}
       THEN createFailedTransaction(p, req[p].tok.cust, None, "duplicate_scan", 0)
       ELSE Goto(p, "ms_today", req[p]) /\ UNCHANGED <<txns, faults>>
  /\ UNCHANGED <<now, subs, uniqueIdx, lock, batch, usedNonces, cache, loadedAt>>

\* step 4.5: already scanned this meal type today (lines 113-136)
MSToday(p) ==
  /\ pc[p] = "ms_today"
  /\ IF /\ SuccessIds(req[p].tok.cust, req[p].mealType, DayStart(now), DayEnd(now)) # {}
        /\ ~req[p].override
       THEN createFailedTransaction(p, req[p].tok.cust, None, "already_scanned_today", 0)
       ELSE Goto(p, "ms_sub", req[p]) /\ UNCHANGED <<txns, faults>>
  /\ UNCHANGED <<now, subs, uniqueIdx, lock, batch, usedNonces, cache, loadedAt>>

\* steps 5, 5.5: subscription, pause, plan restriction (lines 138-172)
MSSub(p) ==
  /\ pc[p] = "ms_sub"
  /\ LET cust == req[p].tok.cust
         cands == {s \in ActiveSubs(cust) :
                     subs[s].endDay >= DayOf(now) /\ subs[s].mealsRemaining > 0}
     IN IF cands = {}
          THEN createFailedTransaction(p, cust, None, "no_subscription", 0)
        ELSE \E s \in cands :
          IF subs[s].pausedAt
            THEN createFailedTransaction(p, cust, s, "subscription_paused", 0)
          ELSE IF subs[s].mealsRemaining <= 0
            THEN createFailedTransaction(p, cust, s, "no_meals_remaining", 0)
          ELSE IF ~req[p].override /\ req[p].mealType \notin subs[s].planMealTypes
            THEN createFailedTransaction(p, cust, s, "meal_type_not_allowed", 0)
          ELSE /\ Goto(p, "ms_dec", [req[p] EXCEPT !.sub = s,
                                       !.before = subs[s].mealsRemaining])
               /\ UNCHANGED <<txns, faults>>
  /\ UNCHANGED <<now, subs, uniqueIdx, lock, batch, usedNonces, cache, loadedAt>>

\* Subscription.deductMeal(mealType): models/Subscription.js lines 146-176
deductMealOk(s, mt) ==
  IF mt # None
    THEN subs[s].mealBalances[mt] > 0 /\ subs[s].active
    ELSE subs[s].mealsRemaining > 0 /\ subs[s].active

deductMeal(s, mt) ==
  IF mt # None
    THEN [subs EXCEPT ![s].mealBalances[mt] = @ - 1]
    ELSE [subs EXCEPT ![s].mealsRemaining = @ - 1]

\* step 6: subscription.deductMeal() is called without a meal type
MSDec(p) ==
  /\ pc[p] = "ms_dec"
  /\ lock[req[p].sub] = None
  /\ LET s == req[p].sub IN
     IF deductMealOk(s, None)
       THEN /\ subs' = deductMeal(s, None)
            /\ Goto(p, IF subs'[s].mealsRemaining = 0 THEN "ms_deact" ELSE "ms_txn", req[p])
            /\ UNCHANGED <<txns, faults>>
       ELSE /\ createFailedTransaction(p, req[p].tok.cust, s, "no_meals_remaining", 0)
            /\ UNCHANGED subs
  /\ UNCHANGED <<now, uniqueIdx, lock, batch, usedNonces, cache, loadedAt>>

\* auto-deactivate: updatedSubscription.active = false; save() (lines 183-187)
MSDeact(p) ==
  /\ pc[p] = "ms_deact"
  /\ lock[req[p].sub] = None
  /\ subs' = [subs EXCEPT ![req[p].sub].active = FALSE]
  /\ Goto(p, "ms_txn", req[p])
  /\ UNCHANGED <<now, txns, uniqueIdx, faults, lock, batch, usedNonces, cache, loadedAt>>

\* steps 7-9 and the catch block (lines 189-267)
MSTxn(p) ==
  /\ pc[p] = "ms_txn"
  /\ LET d == Draft(Customer[req[p].tok.cust].messId, req[p].tok.cust, req[p].sub,
                    StaffId, req[p].mealType, "success", req[p].tok.cust, TRUE,
                    None, now, 0)
     IN \/ /\ CanCreate(d)
           /\ txns' = Append(txns, Stored(d))
           /\ Finish(p, Res("success", None, Len(txns) + 1))
           /\ UNCHANGED faults
        \/ /\ ~CanCreate(d)
           /\ Finish(p, Res("failed", "system_error", 0))
           /\ UNCHANGED <<txns, faults>>
        \/ /\ faults > 0
           /\ faults' = faults - 1
           /\ \/ Finish(p, Res("failed", "system_error", 0))
              \/ Finish(p, Res("rejected", "storage_error", 0))
           /\ UNCHANGED txns
  /\ UNCHANGED <<now, subs, uniqueIdx, lock, batch, usedNonces, cache, loadedAt>>

\* ------------------------------------ services/scanCore.js  processScan
\* Every MealTransaction this function creates lacks messId.
SvcDraft(cust, sub, meal, status, reason, snap, dupOf) ==
  Draft(None, cust, sub, StaffId, meal, status,
        IF status = "success" THEN cust ELSE None, snap, reason, now, dupOf)

\* a MealTransaction.create whose rejection rejects processScan
SvcRecord(p, d, r) ==
  IF CanCreate(d)
    THEN txns' = Append(txns, Stored(d)) /\ Finish(p, r)
    ELSE UNCHANGED txns /\ Finish(p, Res("rejected", "ValidationError", 0))

\* customer lookup (lines 17-24)
SvcBegin(p, c, given) ==
  /\ CanStart(p)
  /\ LET r == [NewReq(p) EXCEPT !.path = "svc", !.tok = [cust |-> c, valid |-> TRUE],
                              !.override = given] IN
       IF ~Customer[c].active
         THEN Goto(p, "done", Answered(r, Res("INVALID", "customer_inactive", 0)))
         ELSE Goto(p, "svc_sub", r)
  /\ UNCHANGED <<now, subs, txns, uniqueIdx, faults, lock, batch, usedNonces, cache, loadedAt>>

SvcStart(p) == \E c \in CustomerIds, given \in BOOLEAN : SvcBegin(p, c, given)

\* subscription lookup and meal type (lines 26-67)
SvcSub(p) ==
  /\ pc[p] = "svc_sub"
  /\ LET cust == req[p].tok.cust
         mt == IF req[p].override THEN "lunch" ELSE determineMealType(now)
     IN IF ActiveSubs(cust) = {}
          THEN SvcRecord(p, SvcDraft(cust, None, "lunch", "failed", "no_subscription", FALSE, 0),
                         Res("INVALID", "no_subscription", 0))
        ELSE \E s \in ActiveSubs(cust) :
          IF mt = None
            THEN SvcRecord(p, SvcDraft(cust, s, "lunch", "failed", "invalid_meal_window", FALSE, 0),
                           Res("WINDOW_CLOSED", "invalid_meal_window", 0))
            ELSE /\ Goto(p, "svc_dup", [req[p] EXCEPT !.sub = s, !.mealType = mt,
                                          !.before = subs[s].mealsRemaining])
                 /\ UNCHANGED txns
  /\ UNCHANGED <<now, subs, uniqueIdx, faults, lock, batch, usedNonces, cache, loadedAt>>

\* duplicate check and meals remaining on the loaded document (lines 69-112)
SvcDup(p) ==
  /\ pc[p] = "svc_dup"
  /\ LET cust == req[p].tok.cust
         dups == SuccessIds(cust, req[p].mealType, now - doubleScanWindowSeconds, Forever)
     IN IF dups # {}
          THEN SvcRecord(p, SvcDraft(cust, req[p].sub, req[p].mealType, "duplicate", None,
                                     FALSE, MaxOf(dups)),
                         Res("ALREADY_USED", "duplicate_scan", 0))
        ELSE IF req[p].before <= 0
          THEN SvcRecord(p, SvcDraft(cust, req[p].sub, req[p].mealType, "failed",
                                     "no_meals_remaining", FALSE, 0),
                         Res("EXPIRED", "no_meals_remaining", 0))
        ELSE Goto(p, "svc_save", req[p]) /\ UNCHANGED txns
  /\ UNCHANGED <<now, subs, uniqueIdx, faults, lock, batch, usedNonces, cache, loadedAt>>

\* subscription.mealsRemaining = Math.max(0, mealsRemaining - 1); save()
\* (lines 114-117): the value written is computed from the loaded document
SvcSave(p) ==
  /\ pc[p] = "svc_save"
  /\ lock[req[p].sub] = None
  /\ subs' = [subs EXCEPT ![req[p].sub].mealsRemaining =
                            IF req[p].before - 1 > 0 THEN req[p].before - 1 ELSE 0]
  /\ Goto(p, "svc_txn", req[p])
  /\ UNCHANGED <<now, txns, uniqueIdx, faults, lock, batch, usedNonces, cache, loadedAt>>

\* success record (lines 119-134); the renewal code after it runs only when
\* the create resolves
SvcTxn(p) ==
  /\ pc[p] = "svc_txn"
  /\ SvcRecord(p, SvcDraft(req[p].tok.cust, req[p].sub, req[p].mealType, "success",
                           None, TRUE, 0),
               Res("success", None, Len(txns) + 1))
  /\ UNCHANGED <<now, subs, uniqueIdx, faults, lock, batch, usedNonces, cache, loadedAt>>

\* -------------------------- routes/customerScan.js  POST /scan-mess-qr
\* The handler runs inside a session transaction: its conditional update
\* holds the document until commit or abort; abort discards it.
\* token, role, customer and mess checks (lines 25-138)
CustStart(p) ==
  /\ CanStart(p)
  /\ \E tok \in Tokens, given \in BOOLEAN :
       LET r == [NewReq(p) EXCEPT !.path = "cust", !.tok = tok, !.override = given] IN
       IF ~tok.valid \/ Customer[tok.cust].messId # StaffMess
         THEN Goto(p, "done", Answered(r, Res("error", "SCAN_FAILED", 0)))
         ELSE Goto(p, "cust_sub", r)
  /\ UNCHANGED <<now, subs, txns, uniqueIdx, faults, lock, batch, usedNonces, cache, loadedAt>>

\* subscription, meal type, balance (lines 142-190)
CustSub(p) ==
  /\ pc[p] = "cust_sub"
  /\ LET cands == {s \in ActiveSubs(req[p].tok.cust) : subs[s].endDay >= DayOf(now)}
         mt == IF req[p].override THEN "dinner" ELSE determineMealTypeByHour(now)
     IN IF cands = {} \/ mt \notin TxnMealEnum
          THEN Finish(p, Res("error", "SCAN_FAILED", 0))
        ELSE \E s \in cands :
          IF subs[s].mealBalances[mt] <= 0
            THEN Finish(p, Res("error", "SCAN_FAILED", 0))
            ELSE Goto(p, "cust_dup", [req[p] EXCEPT !.sub = s, !.mealType = mt])
  /\ UNCHANGED <<now, subs, txns, uniqueIdx, faults, lock, batch, usedNonces, cache, loadedAt>>

\* the duplicate query asks for status 'SUCCESS' (lines 192-208)
CustRecent(cust, meal) ==
  {i \in DOMAIN txns : /\ txns[i].customerId = cust
                       /\ txns[i].mealType = meal
                       /\ txns[i].status = "SUCCESS"
                       /\ txns[i].timestamp >= now - CustomerWindowSecs}

mealHours == [breakfast |-> [start |-> 6, end |-> 10],
              lunch |-> [start |-> 11, end |-> 15],
              dinner |-> [start |-> 18, end |-> 22]]

\* duplicate scan and meal hours (lines 192-223)
CustDup(p) ==
  /\ pc[p] = "cust_dup"
  /\ LET mt == req[p].mealType IN
     IF CustRecent(req[p].tok.cust, mt) # {}
       THEN Finish(p, Res("error", "SCAN_FAILED", 0))
     ELSE IF HourOf(now) < mealHours[mt].start \/ HourOf(now) >= mealHours[mt].end
       THEN Finish(p, Res("error", "SCAN_FAILED", 0))
     ELSE Goto(p, "cust_dec", req[p])
  /\ UNCHANGED <<now, subs, txns, uniqueIdx, faults, lock, batch, usedNonces, cache, loadedAt>>

\* conditional update inside the session (lines 225-251)
CustDec(p) ==
  /\ pc[p] = "cust_dec"
  /\ LET s == req[p].sub
         mt == req[p].mealType
     IN IF lock[s] # None
          THEN Finish(p, Res("error", "SCAN_FAILED", 0)) /\ UNCHANGED lock
        ELSE IF subs[s].mealBalances[mt] > 0 /\ subs[s].active
          THEN lock' = [lock EXCEPT ![s] = p] /\ Goto(p, "cust_txn", req[p])
        ELSE Finish(p, Res("error", "SCAN_FAILED", 0)) /\ UNCHANGED lock
  /\ UNCHANGED <<now, subs, txns, uniqueIdx, faults, batch, usedNonces, cache, loadedAt>>

\* MealTransaction.create in the session, then commit or abort (lines 258-334)
CustTxn(p) ==
  /\ pc[p] = "cust_txn"
  /\ LET s == req[p].sub
         mt == req[p].mealType
         d == Draft(Customer[req[p].tok.cust].messId, req[p].tok.cust, s, None, mt,
                    "SUCCESS", None, FALSE, None, now, 0)
     IN IF CanCreate(d)
          THEN /\ subs' = [subs EXCEPT ![s].mealBalances[mt] = @ - 1,
                                       ![s].mealsRemaining = @ - 1]
               /\ txns' = Append(txns, Stored(d))
               /\ Finish(p, Res("success", None, Len(txns) + 1))
          ELSE /\ Finish(p, Res("error", "SCAN_FAILED", 0))
               /\ UNCHANGED <<subs, txns>>
  /\ lock' = [lock EXCEPT ![req[p].sub] = None]
  /\ UNCHANGED <<now, uniqueIdx, faults, batch, usedNonces, cache, loadedAt>>

\* ------------------------------------- routes/billing.js  POST /manual
\* meal type and customer lookup (lines 395-443)
ManStart(p) ==
  /\ CanStart(p)
  /\ \E c \in CustomerIds, given \in BOOLEAN :
       LET mt == IF given THEN "dinner"
                 ELSE IF determineMealType(now) = None THEN "lunch"
                 ELSE determineMealType(now)
           r == [NewReq(p) EXCEPT !.path = "manual", !.tok = [cust |-> c, valid |-> TRUE],
                              !.override = given, !.mealType = mt]
       IN IF ~(Customer[c].active /\ Customer[c].messId = StaffMess)
            THEN Goto(p, "done", Answered(r, Res("error", "Customer not found", 0)))
            ELSE Goto(p, "man_dup", r)
  /\ UNCHANGED <<now, subs, txns, uniqueIdx, faults, lock, batch, usedNonces, cache, loadedAt>>

\* duplicate scan, per meal type per day (lines 450-481)
ManDup(p) ==
  /\ pc[p] = "man_dup"
  /\ IF SuccessIds(req[p].tok.cust, req[p].mealType, DayStart(now), DayEnd(now)) # {}
       THEN Finish(p, Res("error", "duplicate_scan", 0))
       ELSE Goto(p, "man_sub", req[p])
  /\ UNCHANGED <<now, subs, txns, uniqueIdx, faults, lock, batch, usedNonces, cache, loadedAt>>

\* active subscription with meals remaining (lines 483-500)
ManSub(p) ==
  /\ pc[p] = "man_sub"
  /\ LET cands == {s \in ActiveSubs(req[p].tok.cust) :
                     subs[s].messId = StaffMess /\ subs[s].mealsRemaining > 0}
     IN IF cands = {}
          THEN Finish(p, Res("error", "no_active_subscription", 0))
          ELSE \E s \in cands :
                 Goto(p, "man_dec", [req[p] EXCEPT !.sub = s,
                                       !.before = subs[s].mealsRemaining])
  /\ UNCHANGED <<now, subs, txns, uniqueIdx, faults, lock, batch, usedNonces, cache, loadedAt>>

\* conditional update on the meal-type balance only (lines 508-542)
ManDec(p) ==
  /\ pc[p] = "man_dec"
  /\ lock[req[p].sub] = None
  /\ LET s == req[p].sub
         mt == req[p].mealType
     IN IF subs[s].mealBalances[mt] > 0
          THEN /\ subs' = [subs EXCEPT ![s].mealBalances[mt] = @ - 1,
                                       ![s].mealsRemaining = @ - 1]
               /\ Goto(p, "man_txn", req[p])
          ELSE /\ Finish(p, Res("error", NoRemaining(mt), 0))
               /\ UNCHANGED subs
  /\ UNCHANGED <<now, txns, uniqueIdx, faults, lock, batch, usedNonces, cache, loadedAt>>

\* MealTransaction.create and response (lines 550-599)
ManTxn(p) ==
  /\ pc[p] = "man_txn"
  /\ LET d == Draft(StaffMess, req[p].tok.cust, req[p].sub, StaffId, req[p].mealType,
                    "success", req[p].tok.cust, TRUE, None, now, 0)
     IN IF CanCreate(d)
          THEN txns' = Append(txns, Stored(d)) /\ Finish(p, Res("success", None, Len(txns) + 1))
          ELSE UNCHANGED txns /\ Finish(p, Res("error", "SERVER_ERROR", 0))
  /\ UNCHANGED <<now, subs, uniqueIdx, faults, lock, batch, usedNonces, cache, loadedAt>>

\* --------------------- services/idempotentScanService.js  getOrCreateScan
\* getMealWindowBoundaries: today's window of the meal type, in seconds
idemWindows == [breakfast |-> [start |-> 7, end |-> 10],
                lunch |-> [start |-> 12, end |-> 15],
                dinner |-> [start |-> 19, end |-> 22]]

windowStart(mt, t) == DayStart(t) + idemWindows[mt].start * 3600
windowEnd(mt, t) == DayStart(t) + idemWindows[mt].end * 3600 + 3599

findExistingScan(cust, mt, t) == SuccessIds(cust, mt, windowStart(mt, t), windowEnd(mt, t))

\* the caller hands in the customer, the meal type and the subscription
\* document it has loaded
IdemStart(p) ==
  /\ CanStart(p)
  /\ \E s \in ActiveSubs("c1"), mt \in {"lunch", "dinner"} :
       Goto(p, "idem_find",
            [NewReq(p) EXCEPT !.path = "idem", !.tok = [cust |-> "c1", valid |-> TRUE],
                          !.mealType = mt, !.sub = s, !.before = subs[s].mealsRemaining])
  /\ UNCHANGED <<now, subs, txns, uniqueIdx, faults, lock, batch, usedNonces, cache, loadedAt>>

\* STEP 1: existing scan in the meal window (lines 112-128)
IdemFind(p) ==
  /\ pc[p] = "idem_find"
  /\ LET ex == findExistingScan(req[p].tok.cust, req[p].mealType, now) IN
     IF ex # {}
       THEN Finish(p, Res("success", "idempotent", MaxOf(ex)))
       ELSE Goto(p, "idem_dec", req[p])
  /\ UNCHANGED <<now, subs, txns, uniqueIdx, faults, lock, batch, usedNonces, cache, loadedAt>>

\* deductMealAtomic (lines 59-76): the filter object names mealsRemaining
\* twice, the later { $gt: 0 } is the one in effect
deductMealAtomicOk(s, mealsRemainingBefore) == subs[s].mealsRemaining > 0

\* STEP 2: atomic deduction (lines 130-160)
IdemDec(p) ==
  /\ pc[p] = "idem_dec"
  /\ lock[req[p].sub] = None
  /\ LET s == req[p].sub IN
     IF deductMealAtomicOk(s, req[p].before)
       THEN /\ subs' = [subs EXCEPT ![s].mealsRemaining = @ - 1]
            /\ Goto(p, "idem_txn", [req[p] EXCEPT !.before = subs'[s].mealsRemaining])
       ELSE /\ Goto(p, "idem_recheck", req[p])
            /\ UNCHANGED subs
  /\ UNCHANGED <<now, txns, uniqueIdx, faults, lock, batch, usedNonces, cache, loadedAt>>

\* race check after a failed deduction (lines 138-160), and the retry lookup
\* of getOrCreateScan after a duplicate key error (lines 211-232)
IdemRecheck(p) ==
  /\ pc[p] \in {"idem_recheck", "idem_retry"}
  /\ LET ex == findExistingScan(req[p].tok.cust, req[p].mealType, now) IN
     IF ex # {}
       THEN Finish(p, Res("success", "idempotent", MaxOf(ex)))
     ELSE IF pc[p] = "idem_recheck"
       THEN Finish(p, Res("rejected", "NO_MEALS_REMAINING", 0))
     ELSE Finish(p, Res("rejected", "E11000", 0))
  /\ UNCHANGED <<now, subs, txns, uniqueIdx, faults, lock, batch, usedNonces, cache, loadedAt>>

\* STEP 3: transaction record (lines 162-182)
IdemTxn(p) ==
  /\ pc[p] = "idem_txn"
  /\ LET d == Draft(StaffMess, req[p].tok.cust, req[p].sub, StaffId, req[p].mealType,
                    "success", req[p].tok.cust, TRUE, None, now, 0)
         r == Res("success", None, Len(txns) + 1)
     IN IF CanCreate(d)
          THEN /\ txns' = Append(txns, Stored(d))
               /\ IF req[p].before = 0
                    THEN Goto(p, "idem_deact", [req[p] EXCEPT !.res = r])
                    ELSE Finish(p, r)
        ELSE IF DupKey(d)
          THEN Goto(p, "idem_retry", req[p]) /\ UNCHANGED txns
        ELSE Finish(p, Res("rejected", "ValidationError", 0)) /\ UNCHANGED txns
  /\ UNCHANGED <<now, subs, uniqueIdx, faults, lock, batch, usedNonces, cache, loadedAt>>

\* auto-deactivate when no meals are left (lines 184-188)
IdemDeact(p) ==
  /\ pc[p] = "idem_deact"
  /\ lock[req[p].sub] = None
  /\ subs' = [subs EXCEPT ![req[p].sub].active = FALSE]
  /\ Finish(p, req[p].res)
  /\ UNCHANGED <<now, txns, uniqueIdx, faults, lock, batch, usedNonces, cache, loadedAt>>

\* ------------------------ routes/scanBatch.js  processSingleScan
SuccessIdsBySub(sub, meal, from) ==
  {i \in DOMAIN txns : /\ txns[i].subscriptionId = sub
                       /\ txns[i].mealType = meal
                       /\ txns[i].status = "success"
                       /\ txns[i].timestamp >= from}

\* clientTimestamp || Date.now()
RefTime(cts) == IF cts = 0 THEN now ELSE cts

\* signature and customer lookup, not scoped to a mess (lines 100-159)
RBBegin(p, tok, cts) ==
  /\ CanStart(p)
  /\ LET r == [NewReq(p) EXCEPT !.path = "rb", !.tok = tok, !.cts = cts] IN
     IF ~tok.valid
       THEN Goto(p, "done", Answered(r, Res("blocked", "invalid_qr_signature", 0)))
     ELSE IF ~Customer[tok.cust].active
       THEN Goto(p, "done", Answered(r, Res("blocked", "unknown_customer", 0)))
     ELSE Goto(p, "rb_sub", r)
  /\ UNCHANGED <<now, subs, txns, uniqueIdx, faults, lock, batch, usedNonces, cache, loadedAt>>

\* subscription with meals remaining, then meal type from the server clock:
\* determineMealType ignores its second argument (lines 161-204)
RBSub(p) ==
  /\ pc[p] = "rb_sub"
  /\ LET cands == {s \in ActiveSubs(req[p].tok.cust) :
                     /\ subs[s].mealsRemaining > 0
                     /\ subs[s].endDay >= DayOf(RefTime(req[p].cts))}
         mt == determineMealType(now)
     IN IF cands = {}
          THEN Finish(p, Res("blocked", "no_active_subscription", 0))
        ELSE IF mt = None
          THEN Finish(p, Res("blocked", "outside_meal_window", 0))
        ELSE \E s \in cands :
               Goto(p, "rb_dup", [req[p] EXCEPT !.sub = s, !.mealType = mt])
  /\ UNCHANGED <<now, subs, txns, uniqueIdx, faults, lock, batch, usedNonces, cache, loadedAt>>

\* duplicate scan check relative to the client timestamp (lines 206-229)
RBDup(p) ==
  /\ pc[p] = "rb_dup"
  /\ IF SuccessIdsBySub(req[p].sub, req[p].mealType,
                        RefTime(req[p].cts) - doubleScanWindowSeconds) # {}
       THEN Finish(p, Res("blocked", "duplicate_scan", 0))
       ELSE Goto(p, "rb_dec", req[p])
  /\ UNCHANGED <<now, subs, txns, uniqueIdx, faults, lock, batch, usedNonces, cache, loadedAt>>

\* atomic decrement of mealsRemaining (lines 231-256)
RBDec(p) ==
  /\ pc[p] = "rb_dec"
  /\ lock[req[p].sub] = None
  /\ LET s == req[p].sub IN
     IF subs[s].mealsRemaining > 0
       THEN /\ subs' = [subs EXCEPT ![s].mealsRemaining = @ - 1]
            /\ Goto(p, "rb_txn", req[p])
       ELSE /\ Finish(p, Res("blocked", "no_meals_remaining", 0))
            /\ UNCHANGED subs
  /\ UNCHANGED <<now, txns, uniqueIdx, faults, lock, batch, usedNonces, cache, loadedAt>>

\* new MealTransaction({subscriptionId, customerId, scannedByUserId, mealType,
\* status, timestamp}).save(), inside the try/catch (lines 258-298)
RBTxn(p) ==
  /\ pc[p] = "rb_txn"
  /\ LET d == [Draft(None, req[p].tok.cust, req[p].sub, StaffId, req[p].mealType,
                     "success", None, FALSE, None, RefTime(req[p].cts), 0)
                 EXCEPT !.staffId = None]
     IN IF CanCreate(d)
          THEN txns' = Append(txns, Stored(d)) /\ Finish(p, Res("success", None, Len(txns) + 1))
          ELSE UNCHANGED txns /\ Finish(p, Res("failed", "server_error", 0))
  /\ UNCHANGED <<now, subs, uniqueIdx, faults, lock, batch, usedNonces, cache, loadedAt>>

RBStart(p) == \E tok \in Tokens : RBBegin(p, tok, 0)

\* ------------------------------------------------- offline batch replay
\* client timestamps of the scans of an offline batch
ClientTimes == {T0, T0 + 30}

ScanInputs == [tok : Tokens, cts : ClientTimes]

RECURSIVE SeqsUpTo(_)
SeqsUpTo(n) ==
  IF n = 0 THEN {<<>>}
  ELSE SeqsUpTo(n - 1) \cup
       {Append(q, x) : q \in {t \in SeqsUpTo(n - 1) : Len(t) = n - 1}, x \in ScanInputs}

BatchInputs == SeqsUpTo(MaxBatch) \ {<<>>}

\* Array.prototype.sort with the comparator a.clientTimestamp - b.clientTimestamp
\* (stable): insertion of each scan after the scans that are not later
Insert(q, x) ==
  LET k == Cardinality({j \in DOMAIN q : q[j].cts <= x.cts})
  IN SubSeq(q, 1, k) \o <<x>> \o SubSeq(q, k + 1, Len(q))

RECURSIVE SortScans(_)
SortScans(q) ==
  IF q = <<>> THEN <<>>
  ELSE Insert(SortScans(SubSeq(q, 1, Len(q) - 1)), q[Len(q)])

\* routes/scanBatch.js lines 73-84: three independent filters
RouteCounts(results) ==
  [successCount |-> Cardinality({j \in DOMAIN results : results[j].status = "success"}),
   blockedCount |-> Cardinality({j \in DOMAIN results : results[j].status = "blocked"}),
   failedCount |-> Cardinality({j \in DOMAIN results :
                                  results[j].status # "success" \/ results[j].status = "failed"})]

\* the else-if test of processBatch
IsBlocked(r) == r.status = "blocked" \/ r.reason = "duplicate_scan"

\* utils/mealScanner.js lines 297-303: if / else if / else
MSCounts(results) ==
  [successCount |-> Cardinality({j \in DOMAIN results : results[j].status = "success"}),
   blockedCount |-> Cardinality({j \in DOMAIN results :
                                   results[j].status # "success" /\ IsBlocked(results[j])}),
   failedCount |-> Cardinality({j \in DOMAIN results :
                                  results[j].status # "success" /\ ~IsBlocked(results[j])})]

\* POST /scan/batch (lines 56-65) and MealScanner.processBatch (lines 273-284)
BatchSubmit ==
  /\ batch.state = "idle"
  /\ \E kind \in {"route", "ms"}, scans \in BatchInputs :
       batch' = [NoBatch EXCEPT !.kind = kind, !.scans = SortScans(scans), !.i = 1,
                                !.state = "running", !.round = 1,
                                !.reordered = (SortScans(scans) # scans)]
  /\ UNCHANGED <<now, subs, txns, uniqueIdx, faults, lock, pc, req, usedNonces, cache, loadedAt>>

\* the client retries the batch it has already had an answer for
BatchResubmit ==
  /\ batch.state = "done"
  /\ batch.round = 1
  /\ batch' = [batch EXCEPT !.i = 1, !.state = "running", !.round = 2,
                            !.first = batch.results, !.results = <<>>,
                            !.counts = NoCounts]
  /\ UNCHANGED <<now, subs, txns, uniqueIdx, faults, lock, pc, req, usedNonces, cache, loadedAt>>

\* the loop hands the next scan to processSingleScan / processScan
BatchScan ==
  /\ batch.state = "running"
  /\ batch.i <= Len(batch.scans)
  /\ LET scan == batch.scans[batch.i] IN
     IF batch.kind = "route"
       THEN RBBegin("p1", scan.tok, scan.cts)
       ELSE MSBegin("p1", scan.tok, FALSE)

\* results.push(result); processBatch also stamps syncedAt on the result's
\* transaction and saves it (lines 294-309)
BatchCollect ==
  /\ batch.state = "running"
  /\ pc["p1"] = "done"
  /\ pc' = [pc EXCEPT !["p1"] = "idle"]
  /\ req' = [req EXCEPT !["p1"] = NoReq]
  /\ LET r == req["p1"].res IN
     IF r.status = "rejected"
       THEN batch' = [batch EXCEPT !.state = "aborted"] /\ UNCHANGED faults
     ELSE \/ /\ batch' = [batch EXCEPT !.results = Append(@, r), !.i = @ + 1]
             /\ UNCHANGED faults
          \/ /\ batch.kind = "ms" /\ r.txn # 0 /\ faults > 0
             /\ faults' = faults - 1
             /\ batch' = [batch EXCEPT !.results = Append(@, r), !.state = "aborted"]
  /\ UNCHANGED <<now, subs, txns, uniqueIdx, lock, usedNonces, cache, loadedAt>>

\* the response with the aggregate counts
BatchRespond ==
  /\ batch.state = "running"
  /\ batch.i > Len(batch.scans)
  /\ batch' = [batch EXCEPT !.state = "done",
                            !.counts = IF batch.kind = "route"
                                         THEN RouteCounts(batch.results)
                                         ELSE MSCounts(batch.results)]
  /\ UNCHANGED <<now, subs, txns, uniqueIdx, faults, lock, pc, req, usedNonces, cache, loadedAt>>

NextBatch ==
  \/ Tick
  \/ BatchSubmit
  \/ BatchResubmit
  \/ BatchScan
  \/ BatchCollect
  \/ BatchRespond
  \/ RBSub("p1")
  \/ RBDup("p1")
  \/ RBDec("p1")
  \/ RBTxn("p1")
  \/ MSDup("p1")
  \/ MSToday("p1")
  \/ MSSub("p1")
  \/ MSDec("p1")
  \/ MSDeact("p1")
  \/ MSTxn("p1")

\* the batch is synced after the scans were made; storage may fail
InitBatch ==
  /\ InitCommon
  /\ now = T0 + 30
  /\ faults \in {0, MaxFaults}

SpecBatch == InitBatch /\ [][NextBatch]_vars

Next ==
  \/ Tick
  \/ \E p \in Procs : LiveStart(p)
  \/ \E p \in Procs : LiveSub(p)
  \/ \E p \in Procs : LiveDup(p)
  \/ \E p \in Procs : LiveDec(p)
  \/ \E p \in Procs : LiveTxn(p)
  \/ \E p \in Procs : LiveNotify(p)
  \/ \E p \in Procs : MSStart(p)
  \/ \E p \in Procs : MSDup(p)
  \/ \E p \in Procs : MSToday(p)
  \/ \E p \in Procs : MSSub(p)
  \/ \E p \in Procs : MSDec(p)
  \/ \E p \in Procs : MSDeact(p)
  \/ \E p \in Procs : MSTxn(p)
  \/ \E p \in Procs : SvcStart(p)
  \/ \E p \in Procs : SvcSub(p)
  \/ \E p \in Procs : SvcDup(p)
  \/ \E p \in Procs : SvcSave(p)
  \/ \E p \in Procs : SvcTxn(p)
  \/ \E p \in Procs : CustStart(p)
  \/ \E p \in Procs : CustSub(p)
  \/ \E p \in Procs : CustDup(p)
  \/ \E p \in Procs : CustDec(p)
  \/ \E p \in Procs : CustTxn(p)
  \/ \E p \in Procs : ManStart(p)
  \/ \E p \in Procs : ManDup(p)
  \/ \E p \in Procs : ManSub(p)
  \/ \E p \in Procs : ManDec(p)
  \/ \E p \in Procs : ManTxn(p)
  \/ \E p \in Procs : IdemStart(p)
  \/ \E p \in Procs : IdemFind(p)
  \/ \E p \in Procs : IdemDec(p)
  \/ \E p \in Procs : IdemRecheck(p)
  \/ \E p \in Procs : IdemTxn(p)
  \/ \E p \in Procs : IdemDeact(p)
  \/ \E p \in Procs : RBStart(p)
  \/ \E p \in Procs : RBSub(p)
  \/ \E p \in Procs : RBDup(p)
  \/ \E p \in Procs : RBDec(p)
  \/ \E p \in Procs : RBTxn(p)

Spec == Init /\ [][Next]_vars

\* ---------------------------------------------------------------------
\* The credential codec and the handlers' credential steps.
\*
\* A presented credential is either plain text without a delimiter or two
\* segments joined by '.': a payload segment (base64 text of a JSON object)
\* and a signature segment (the MAC of the payload segment's text).  The
\* JWT credentials of QRTokenService have the same anatomy with a header
\* in front.  Base64 text is not canonical: Buffer.from(x, 'base64') skips
\* padding and foreign characters, so one JSON object has several texts.
\* ---------------------------------------------------------------------
HMAC_SECRET == "server"
Keys == {HMAC_SECRET, "other"}
Schemes == {"hmac", "jwt"}
QrCodeOf == [c1 |-> "q1", c2 |-> "q2"]

\* expiresAt: 0 is a payload without the field, Yesterday has passed
ExpiryTimes == {0, Yesterday, T0 + DaySecs}
Payloads == [qrCodeId : {"q1", None}, customerId : {"c1", None},
             expiresAt : ExpiryTimes, type : {"qr_scan", "MESS_QR", None}]
NoPayload == [qrCodeId |-> None, customerId |-> None, expiresAt |-> 0,
              type |-> None]

\* the payload segment as text: the JSON object and the spelling of its
\* base64 text (0 is the spelling the encoder produces)
B64Encode(payload) == [json |-> payload, pad |-> 0]
B64Decode(seg) == seg.json
NoSeg == [json |-> NoPayload, pad |-> 0]

\* the MAC over the decoded object instead of the received text
HmacOfDecoded(secret, seg) == [key |-> secret, text |-> B64Encode(B64Decode(seg))]

\* crypto.createHmac('sha256', secret).update(payloadB64).digest('hex')
Hmac(secret, seg) == [key |-> secret, text |-> seg]
NoSig == [key |-> None, text |-> NoSeg]

PlainToken(id) ==
  [form |-> "plain", scheme |-> None, seg |-> NoSeg, sig |-> NoSig, id |-> id]
SignedToken(scheme, seg, sig) ==
  [form |-> "signed", scheme |-> scheme, seg |-> seg, sig |-> sig, id |-> None]

\* createQrToken / generateQrToken / generateToken with some key, and the
\* plain identifiers printed on legacy cards
createQrToken(scheme, payload, secret) ==
  SignedToken(scheme, B64Encode(payload), Hmac(secret, B64Encode(payload)))
CodecTokens ==
  {createQrToken(sc, pl, k) : sc \in Schemes, pl \in Payloads, k \in Keys}
    \cup {PlainToken(id) : id \in {"q1", "q9"}}

VResult(valid, payload, error) ==
  [valid |-> valid, payload |-> payload, error |-> error]
NoVerified == VResult(FALSE, NoPayload, "not verified")

\* utils/qr.js verifyQrToken(token, secret): split, recompute, compare with
\* timingSafeEqual (which throws on buffers of different lengths: the
\* second segment of a JWT is not a 32-byte hex text), parse.  No expiry
\* and no type check.
verifyQrToken(token, secret) ==
  IF token.form = "plain"
    THEN VResult(FALSE, NoPayload, "Missing payload or signature")
  ELSE IF token.scheme = "jwt"
    THEN VResult(FALSE, NoPayload, "Input buffers must have the same byte length")
  ELSE IF Hmac(secret, token.seg) # token.sig
    THEN VResult(FALSE, NoPayload, "Signature mismatch")
  ELSE VResult(TRUE, B64Decode(token.seg), None)

\* utils/qrGenerator.js verifyQrToken(token, isAdmin): as above, then the
\* expiry check, skipped for isAdmin; every throw is rethrown by the catch
verifyQrTokenIsAdmin(token, isAdmin, t) ==
  IF token.form = "plain"
    THEN VResult(FALSE, NoPayload, "Invalid token format")
  ELSE IF token.scheme = "jwt"
    THEN VResult(FALSE, NoPayload, "Input buffers must have the same byte length")
  ELSE IF Hmac(HMAC_SECRET, token.seg) # token.sig
    THEN VResult(FALSE, NoPayload, "Invalid signature")
  ELSE LET payload == B64Decode(token.seg) IN
       IF ~isAdmin /\ payload.expiresAt # 0 /\ t > payload.expiresAt
         THEN VResult(FALSE, NoPayload, "Token expired")
       ELSE VResult(TRUE, payload, None)

\* utils/asyncHandler.js verifyQrToken(token, secret): compares the hex
\* strings; returns qrCodeId and issuedAt only
verifyQrTokenSecret(token, secret) ==
  IF token.form = "plain" THEN VResult(FALSE, NoPayload, None)
  ELSE IF token.scheme = "jwt" \/ Hmac(secret, token.seg) # token.sig
    THEN VResult(FALSE, NoPayload, None)
  ELSE VResult(TRUE, [NoPayload EXCEPT !.qrCodeId = B64Decode(token.seg).qrCodeId], None)

\* QRTokenService.verifyToken: jwt.verify (format, signature, then exp with
\* now >= exp), then the type and the required fields
verifyToken(token, t) ==
  IF token.form = "plain" \/ token.scheme # "jwt"
    THEN VResult(FALSE, NoPayload, "Invalid QR code")
  ELSE IF Hmac(HMAC_SECRET, token.seg) # token.sig
    THEN VResult(FALSE, NoPayload, "Invalid QR code")
  ELSE LET decoded == B64Decode(token.seg) IN
       IF decoded.expiresAt # 0 /\ t >= decoded.expiresAt
         THEN VResult(FALSE, NoPayload, "QR code expired")
       ELSE IF decoded.type # "qr_scan"
         THEN VResult(FALSE, NoPayload, "Invalid QR token type")
       ELSE IF decoded.customerId = None
         THEN VResult(FALSE, NoPayload, "Invalid QR token payload")
       ELSE VResult(TRUE, decoded, None)

\* what someone holding a credential can do to its payload segment while
\* keeping the signature segment: respell the text, change a field
Alterations(seg) ==
  {[seg EXCEPT !.pad = 1 - seg.pad],
   [seg EXCEPT !.json.expiresAt = T0 + DaySecs],
   [seg EXCEPT !.json.qrCodeId = IF seg.json.qrCodeId = "q1" THEN "q2" ELSE "q1"]}
    \ {seg}

CodecProc == "p1"
CodecReq(tok) ==
  [path |-> None, tok |-> tok, orig |-> tok, tampered |-> FALSE,
   isAdmin |-> FALSE, verified |-> NoVerified, qrCodeId |-> None,
   res |-> NoRes]

InitCodec ==
  /\ InitCommon
  /\ now = T0
  /\ faults = 0

CodecGoto(label, r) ==
  /\ pc' = [pc EXCEPT ![CodecProc] = label]
  /\ req' = [req EXCEPT ![CodecProc] = r]
  /\ UNCHANGED <<now, subs, txns, uniqueIdx, faults, lock, batch, usedNonces, cache, loadedAt>>

\* a credential is presented, possibly after its payload segment was
\* altered with the signature segment kept
CodecPresent ==
  /\ pc[CodecProc] = "idle"
  /\ \E tok \in CodecTokens :
       CodecGoto("presented", CodecReq(tok))

CodecTamper ==
  /\ pc[CodecProc] = "presented"
  /\ LET r == req[CodecProc] IN
       /\ r.tok.form = "signed"
       /\ ~r.tampered
       /\ \E seg \in Alterations(r.tok.seg) :
            CodecGoto("presented",
                      [r EXCEPT !.tok.seg = seg, !.tampered = TRUE])

\* POST /scan, lines 62-81: a token with a '.' is verified, one without is
\* taken as the customer's qrCodeId as it stands
LiveToken ==
  /\ pc[CodecProc] = "presented"
  /\ LET r == [req[CodecProc] EXCEPT !.path = "live"] IN
       IF r.tok.form = "signed"
         THEN LET verified == verifyQrToken(r.tok, HMAC_SECRET) IN
              IF ~verified.valid
                THEN CodecGoto("done", [r EXCEPT !.verified = verified,
                        !.res = Res("error", "INVALID_QR_SIGNATURE", 0)])
              ELSE IF verified.payload.qrCodeId = None
                THEN CodecGoto("done", [r EXCEPT !.verified = verified,
                        !.res = Res("error", "INVALID_QR_PAYLOAD", 0)])
              ELSE CodecGoto("live_lookup",
                     [r EXCEPT !.verified = verified,
                               !.qrCodeId = verified.payload.qrCodeId])
       ELSE CodecGoto("live_lookup", [r EXCEPT !.qrCodeId = r.tok.id])

\* POST /scan, lines 83-101: Customer.findOne({qrCodeId, active, messId})
LiveLookup ==
  /\ pc[CodecProc] = "live_lookup"
  /\ LET r == req[CodecProc] IN
       IF \E c \in CustomerIds : /\ QrCodeOf[c] = r.qrCodeId
                                 /\ Customer[c].active
                                 /\ Customer[c].messId = StaffMess
         THEN CodecGoto("done", [r EXCEPT !.res = Res("customer", None, 0)])
       ELSE CodecGoto("done", [r EXCEPT !.res = Res("blocked", "invalid_qr", 0)])

\* qrGenerator's verifier, called for a customer or for an administrator
GeneratorVerify ==
  /\ pc[CodecProc] = "presented"
  /\ \E isAdmin \in BOOLEAN :
       LET r == [req[CodecProc] EXCEPT !.path = "generator", !.isAdmin = isAdmin]
           verified == verifyQrTokenIsAdmin(r.tok, isAdmin, now) IN
       CodecGoto("done", [r EXCEPT !.verified = verified,
          !.res = IF verified.valid THEN Res("payload", None, 0)
                  ELSE Res("error", verified.error, 0)])

\* asyncHandler's verifier
SecretVerify ==
  /\ pc[CodecProc] = "presented"
  /\ LET r == [req[CodecProc] EXCEPT !.path = "secret"]
         verified == verifyQrTokenSecret(r.tok, HMAC_SECRET) IN
       CodecGoto("done", [r EXCEPT !.verified = verified,
          !.res = IF verified.valid THEN Res("payload", None, 0)
                  ELSE Res("error", None, 0)])

\* MealScanner.processScan step 1 and ScanService.processScan step 1
JwtVerify ==
  /\ pc[CodecProc] = "presented"
  /\ LET r == [req[CodecProc] EXCEPT !.path = "jwt"]
         verified == verifyToken(r.tok, now) IN
       CodecGoto("done", [r EXCEPT !.verified = verified,
          !.res = IF verified.valid THEN Res("payload", None, 0)
                  ELSE Res("failed", "invalid_qr", 0)])

NextCodec ==
  \/ CodecPresent
  \/ CodecTamper
  \/ LiveToken
  \/ LiveLookup
  \/ GeneratorVerify
  \/ SecretVerify
  \/ JwtVerify

SpecCodec == InitCodec /\ [][NextCodec]_vars

\* ---------------------------------------------------------------------
\* The meal type resolvers on their own: the clock and the configured
\* windows are the inputs.
\* ---------------------------------------------------------------------
HM(h, m) == DaySecs + h * 3600 + m * 60
ResolveTimes ==
  {HM(3, 0), HM(6, 30), HM(9, 30), HM(11, 59), HM(12, 0), HM(15, 0),
   HM(15, 0) + 59, HM(15, 1), HM(22, 0), HM(22, 1)}

\* a meal type without a configured window (windows.lunch undefined)
NoWindow == [start |-> 0 - 1, end |-> 0 - 1]
WindowConfigs ==
  [breakfast : {mealWindows.breakfast, NoWindow},
   lunch : {mealWindows.lunch, [start |-> 540, end |-> 900], NoWindow},
   dinner : {mealWindows.dinner}]

\* utils/subscriptionJobs.js determineMealType(config) for any config;
\* isTimeInWindow is false for a window that is not configured
determineMealTypeConfig(t, windows) ==
  LET in(w) == w # NoWindow /\ isTimeInWindow(MinuteOfDay(t), w) IN
  IF in(windows.breakfast) THEN "breakfast"
  ELSE IF in(windows.lunch) THEN "lunch"
  ELSE IF in(windows.dinner) THEN "dinner"
  ELSE None

ResolveReq(windows) == [path |-> None, windows |-> windows, mealType |-> None]

InitResolve ==
  /\ InitCommon
  /\ now \in ResolveTimes
  /\ faults = 0

ResolveGoto(label, r) ==
  /\ pc' = [pc EXCEPT ![CodecProc] = label]
  /\ req' = [req EXCEPT ![CodecProc] = r]
  /\ UNCHANGED <<now, subs, txns, uniqueIdx, faults, lock, batch, usedNonces, cache, loadedAt>>

\* getSettings(): the windows the administrator has configured
ResolveSettings ==
  /\ pc[CodecProc] = "idle"
  /\ \E windows \in WindowConfigs : ResolveGoto("settings", ResolveReq(windows))

\* determineMealType(settings) of POST /scan, the manual and batch routes
ResolveByConfig ==
  /\ pc[CodecProc] = "settings"
  /\ LET r == req[CodecProc] IN
       ResolveGoto("resolved", [r EXCEPT !.path = "config",
          !.mealType = determineMealTypeConfig(now, r.windows)])

\* determineMealType() of POST /scan-mess-qr
ResolveByHour ==
  /\ pc[CodecProc] = "settings"
  /\ LET r == req[CodecProc] IN
       ResolveGoto("resolved", [r EXCEPT !.path = "hour",
          !.mealType = determineMealTypeByHour(now)])

NextResolve ==
  \/ ResolveSettings
  \/ ResolveByConfig
  \/ ResolveByHour

SpecResolve == InitResolve /\ [][NextResolve]_vars

\* ---------------------------------------------------------------------
\* POST /scan with a notifier that can fail: the audit log, the
\* notification service, the customer reload or the socket may fail once.
\* ---------------------------------------------------------------------
InitNotify ==
  /\ InitCommon
  /\ now = T0
  /\ faults = MaxFaults

NextNotify ==
  \/ \E p \in Procs : LiveStart(p)
  \/ \E p \in Procs : LiveSub(p)
  \/ \E p \in Procs : LiveDup(p)
  \/ \E p \in Procs : LiveDec(p)
  \/ \E p \in Procs : LiveTxn(p)
  \/ \E p \in Procs : LiveNotify(p)

SpecNotify == InitNotify /\ [][NextNotify]_vars

\* ------------------------------------------------ a customer of another mess
\* The staff member belongs to StaffMess; the only subscription belongs to a
\* customer of another mess, whose credential is genuine.
ForeignCustomers == {c \in DOMAIN Customer : Customer[c].messId # StaffMess}
ForeignTokens == {[cust |-> c, valid |-> TRUE] : c \in ForeignCustomers}

InitTenant ==
  /\ \E b \in InitBalances, paused \in BOOLEAN, c \in ForeignCustomers :
       subs = [s \in SubIds |->
                 [customerId |-> c, messId |-> Customer[c].messId, active |-> TRUE,
                  mealsTotal |-> Sum4(b), planAllocations |-> b,
                  mealsRemaining |-> Sum4(b), mealBalances |-> b,
                  pausedAt |-> paused, endDay |-> DayOf(T0) + 1,
                  planMealTypes |-> {m \in MealTypes :
                                       m = "breakfast" \/ m = "lunch" \/ b[m] > 0}]]
  /\ txns = <<>>
  /\ uniqueIdx \in BOOLEAN
  /\ lock = [s \in SubIds |-> None]
  /\ pc = [p \in Procs |-> "idle"]
  /\ req = [p \in Procs |-> NoReq]
  /\ batch = NoBatch
  /\ usedNonces = NoNonces
  /\ cache = NoSettings
  /\ loadedAt = 0
  /\ now = T0
  /\ faults = 0

NextTenant ==
  \/ Tick
  \/ \E p \in Procs, tok \in ForeignTokens : LiveBegin(p, tok)
  \/ \E p \in Procs, tok \in ForeignTokens : RBBegin(p, tok, 0)
  \/ \E p \in Procs : RBSub(p)
  \/ \E p \in Procs : RBDup(p)
  \/ \E p \in Procs : RBDec(p)
  \/ \E p \in Procs : RBTxn(p)
  \/ \E p \in Procs, c \in ForeignCustomers, given \in BOOLEAN : SvcBegin(p, c, given)
  \/ \E p \in Procs : SvcSub(p)
  \/ \E p \in Procs : SvcDup(p)
  \/ \E p \in Procs : SvcSave(p)
  \/ \E p \in Procs : SvcTxn(p)

SpecTenant == InitTenant /\ [][NextTenant]_vars

\* ------------------------------------------- routes/deepLink.js, deep links
\* The validity of a link in minutes: /generate accepts 1 to 5.
ExpiryMinutes == {1, 5}
\* the cleanup timer removes nonces older than 10 minutes
NonceRetentionSecs == 600
LinkTimes == {T0, T0 + 60, T0 + 299, T0 + 300, T0 + 601, T0 + 1200}

\* crypto.randomBytes(16): every generated link has its own nonce
NonceOf(customerId, expiryMinutes) == <<customerId, expiryMinutes>>

DeepLinkPayload(customerId, messId, nonce, type, iat, exp) ==
  [customerId |-> customerId, messId |-> messId, nonce |-> nonce, type |-> type,
   qrCodeId |-> None, issuedAt |-> iat, expiresAt |-> exp]

\* DeepLinkService.generateDeepLink at time t: jwt.sign with iat and
\* expiresIn minutes
generateDeepLink(customerId, messId, expiryMinutes, t) ==
  createQrToken("jwt",
                DeepLinkPayload(customerId, messId, NonceOf(customerId, expiryMinutes),
                                "deep_link_scan", t, t + expiryMinutes * 60),
                HMAC_SECRET)

\* the links the admin generated at T0, a link signed with another key, and
\* a customer QR credential (type qr_scan) presented as a link
DeepLinks ==
  {generateDeepLink(c, Customer[c].messId, m, T0) : c \in {"c1", "c3"}, m \in ExpiryMinutes}
LinkTokens ==
  DeepLinks
    \cup {createQrToken("jwt", DeepLinkPayload("c1", "m1", <<"c1", 0>>, "deep_link_scan",
                                               T0, T0 + 300), "other"),
          createQrToken("jwt", DeepLinkPayload("c1", "m1", None, "qr_scan",
                                               T0, T0 + DaySecs), HMAC_SECRET)}

LinkResult(ok, code, data) == [ok |-> ok, code |-> code, data |-> data]

\* DeepLinkService.verifyDeepLink: jwt.verify (signature, then expiry with
\* now >= exp), then the type and the required fields
verifyDeepLink(token, t) ==
  IF token.form = "plain" \/ token.scheme # "jwt"
    THEN LinkResult(FALSE, "INVALID_LINK", NoPayload)
  ELSE IF Hmac(HMAC_SECRET, token.seg) # token.sig
    THEN LinkResult(FALSE, "INVALID_LINK", NoPayload)
  ELSE LET decoded == B64Decode(token.seg) IN
       IF t >= decoded.expiresAt
         THEN LinkResult(FALSE, "LINK_EXPIRED", NoPayload)
       ELSE IF decoded.type # "deep_link_scan"
         THEN LinkResult(FALSE, "INVALID_TOKEN_TYPE", NoPayload)
       ELSE IF decoded.customerId = None \/ decoded.messId = None \/ decoded.nonce = None
         THEN LinkResult(FALSE, "INVALID_TOKEN", NoPayload)
       ELSE LinkResult(TRUE, None, decoded)

\* a replay check that never finds the nonce
nonceNeverUsed(nonces, nonce) == FALSE

\* usedNonces.has(tokenData.nonce)
nonceUsed(nonces, nonce) == nonce \in DOMAIN nonces

\* usedNonces.set(nonce, Date.now())
nonceSet(nonces, nonce, t) ==
  [n \in DOMAIN nonces \cup {nonce} |-> IF n = nonce THEN t ELSE nonces[n]]

LinkTick ==
  /\ \A p \in Procs : pc[p] \in {"idle", "done"}
  /\ \E t \in LinkTimes : t > now /\ now' = t
  /\ UNCHANGED <<subs, txns, uniqueIdx, faults, lock, pc, req, batch,
                 usedNonces, cache, loadedAt>>

\* the setInterval callback (lines 16-23)
NonceCleanup ==
  /\ usedNonces' = [n \in {m \in DOMAIN usedNonces :
                              ~(now - usedNonces[m] > NonceRetentionSecs)} |-> usedNonces[n]]
  /\ usedNonces' # usedNonces
  /\ UNCHANGED <<now, subs, txns, uniqueIdx, faults, lock, pc, req, batch, cache, loadedAt>>

\* POST /confirm up to its first await (lines 107-128): verify the link,
\* check the nonce, mark it, compare the mess
ConfirmStart(p) ==
  /\ CanStart(p)
  /\ \E tok \in LinkTokens :
       LET r == [NewReq(p) EXCEPT !.path = "link", !.tok = tok]
           v == verifyDeepLink(tok, now)
       IN IF ~v.ok
            THEN Goto(p, "done", Answered(r, Res("error", v.code, 0))) /\ UNCHANGED usedNonces
          ELSE IF nonceUsed(usedNonces, v.data.nonce)
            THEN Goto(p, "done", Answered(r, Res("error", "LINK_USED", 0)))
                 /\ UNCHANGED usedNonces
          ELSE /\ usedNonces' = nonceSet(usedNonces, v.data.nonce, now)
               /\ IF v.data.messId # StaffMess
                    THEN Goto(p, "done", Answered(r, Res("error", "WRONG_MESS", 0)))
                    ELSE Goto(p, "link_scan", r)
  /\ UNCHANGED <<now, subs, txns, uniqueIdx, faults, lock, batch, cache, loadedAt>>

\* scanService.processScan(token, ...) (services/scanService.js 12-23 and
\* 132-137): the link itself is handed to QRTokenService.verifyToken
ConfirmScan(p) ==
  /\ pc[p] = "link_scan"
  /\ LET v == verifyToken(req[p].tok, now) IN
     IF ~v.valid
       THEN Finish(p, Res("error", IF v.error = "QR code expired" THEN "QR_EXPIRED"
                                   ELSE "INVALID_QR_TOKEN", 0))
       ELSE Goto(p, "ss_cust", req[p])
  /\ UNCHANGED <<now, subs, txns, uniqueIdx, faults, lock, batch,
                 usedNonces, cache, loadedAt>>

InitLink == InitCommon /\ now = T0 /\ faults = 0

NextLink ==
  \/ LinkTick
  \/ NonceCleanup
  \/ \E p \in Procs : ConfirmStart(p)
  \/ \E p \in Procs : ConfirmScan(p)

SpecLink == InitLink /\ [][NextLink]_vars

\* --------------------------------- utils/errorHandler.js  getSettings, cache
\* TTL = 60_000 ms
TTL == 60
SettingsTimes == {T0, T0 + 30, T0 + 59, T0 + 60, T0 + 150}

getDefaultSettings ==
  [mealWindows |-> "06:30-10:00 12:00-15:00 19:00-22:00",
   doubleScanWindowSeconds |-> 30, alertThresholdMealsRemaining |-> 5,
   timezone |-> "UTC"]

\* what Settings.findOne({}).lean() can resolve to: no document, or the
\* document the admin saved
StoredSettings ==
  {NoSettings,
   [getDefaultSettings EXCEPT !.doubleScanWindowSeconds = 60],
   [getDefaultSettings EXCEPT !.mealWindows = "07:00-09:00 12:00-14:00 19:00-21:00"]}

\* a catch block that rethrows
getSettingsRethrow(c) == Res("threw", NoSettings, 0)

\* catch (err) { return cache || getDefaultSettings(); }
getSettingsCatch(c) == Res("fallback", IF c # NoSettings THEN c ELSE getDefaultSettings, 0)

SettingsTick ==
  /\ \A p \in Procs : pc[p] \in {"idle", "done"}
  /\ \E t \in SettingsTimes : t > now /\ now' = t
  /\ UNCHANGED <<subs, txns, uniqueIdx, faults, lock, pc, req, batch,
                 usedNonces, cache, loadedAt>>

\* the cache test (lines 41-43)
GetSettingsStart(p) ==
  /\ CanStart(p)
  /\ LET r == [NewReq(p) EXCEPT !.path = "settings"] IN
     IF cache # NoSettings /\ now - loadedAt < TTL
       THEN Goto(p, "done", Answered(r, Res("cached", cache, 0)))
       ELSE Goto(p, "gs_query", r)
  /\ UNCHANGED <<now, subs, txns, uniqueIdx, faults, lock, batch,
                 usedNonces, cache, loadedAt>>

\* await Settings.findOne({}).lean() resolves or rejects (lines 45-52)
GetSettingsQuery(p) ==
  /\ pc[p] = "gs_query"
  /\ \/ \E s \in StoredSettings :
          /\ cache' = (IF s # NoSettings THEN s ELSE getDefaultSettings)
          /\ loadedAt' = now
          /\ Finish(p, Res("loaded", cache', 0))
     \/ /\ Finish(p, getSettingsCatch(cache))
        /\ UNCHANGED <<cache, loadedAt>>
  /\ UNCHANGED <<now, subs, txns, uniqueIdx, faults, lock, batch, usedNonces>>

\* clearSettingsCache (lines 58-61), called after an admin update
ClearSettingsCache ==
  /\ cache # NoSettings
  /\ cache' = NoSettings
  /\ loadedAt' = 0
  /\ UNCHANGED <<now, subs, txns, uniqueIdx, faults, lock, pc, req, batch, usedNonces>>

InitSettings == InitCommon /\ now = T0 /\ faults = 0

NextSettings ==
  \/ SettingsTick
  \/ ClearSettingsCache
  \/ \E p \in Procs : GetSettingsStart(p)
  \/ \E p \in Procs : GetSettingsQuery(p)

SpecSettings == InitSettings /\ [][NextSettings]_vars

\* ------------------------------------------- deactivation of subscriptions
\* PUT /subscriptions/:id with { active: false } (routes/subscriptions.js
\* 246-277): findByIdAndUpdate(id, { active: false })
AdminDeactivate ==
  /\ \E s \in SubIds :
       /\ subs[s].active
       /\ subs[s].messId = StaffMess
       /\ subs' = [subs EXCEPT ![s].active = FALSE]
  /\ UNCHANGED <<now, txns, uniqueIdx, faults, lock, pc, req, batch,
                 usedNonces, cache, loadedAt>>

\* POST /admin/jobs/run-deactivate: updateMany of the active subscriptions
\* that have no meals left or have ended
RunDeactivateJob ==
  /\ subs' = [s \in SubIds |->
                IF subs[s].active /\ (subs[s].mealsRemaining <= 0 \/ subs[s].endDay < DayOf(now))
                  THEN [subs[s] EXCEPT !.active = FALSE]
                  ELSE subs[s]]
  /\ subs' # subs
  /\ UNCHANGED <<now, txns, uniqueIdx, faults, lock, pc, req, batch,
                 usedNonces, cache, loadedAt>>

InitDeactivate == InitCommon /\ now = T0 /\ faults = 0

NextDeactivate ==
  \/ RunDeactivateJob
  \/ AdminDeactivate
  \/ \E p \in Procs : LiveStart(p)
  \/ \E p \in Procs : LiveSub(p)
  \/ \E p \in Procs : LiveDup(p)
  \/ \E p \in Procs : LiveDec(p)
  \/ \E p \in Procs : LiveTxn(p)
  \/ \E p \in Procs : LiveNotify(p)
  \/ \E p \in Procs : ManStart(p)
  \/ \E p \in Procs : ManDup(p)
  \/ \E p \in Procs : ManSub(p)
  \/ \E p \in Procs : ManDec(p)
  \/ \E p \in Procs : ManTxn(p)
  \/ \E p \in Procs : RBStart(p)
  \/ \E p \in Procs : RBSub(p)
  \/ \E p \in Procs : RBDup(p)
  \/ \E p \in Procs : RBDec(p)
  \/ \E p \in Procs : RBTxn(p)

SpecDeactivate == InitDeactivate /\ [][NextDeactivate]_vars

\* ------------------------------------------------- top-up and renewal
\* mealsCount of a top-up request
TopupCounts == {1, 2}

\* POST /subscriptions/:id/topup (routes/subscriptions.js 300-318): validate
\* mealsCount, load the subscription
TopupStart(p) ==
  /\ CanStart(p)
  /\ \E s \in SubIds, n \in TopupCounts :
       /\ subs[s].messId = StaffMess
       /\ Goto(p, "topup_save",
               [NewReq(p) EXCEPT !.path = "topup", !.sub = s, !.count = n,
                                 !.tok = [cust |-> subs[s].customerId, valid |-> TRUE],
                                 !.doc = Loaded(s)])
  /\ UNCHANGED <<now, subs, txns, uniqueIdx, faults, lock, batch,
                 usedNonces, cache, loadedAt>>

\* lines 320-335: add to the loaded totals, reactivate, save(): the save
\* sets the paths the handler modified to the values it computed
TopupSave(p) ==
  /\ pc[p] = "topup_save"
  /\ lock[req[p].sub] = None
  /\ LET s == req[p].sub
         doc == req[p].doc
         n == req[p].count
     IN subs' = [subs EXCEPT
                  ![s].mealsTotal = doc.mealsTotal + n,
                  ![s].mealsRemaining = doc.mealsRemaining + n,
                  ![s].active = IF /\ doc.mealsRemaining + n > 0
                                   /\ doc.endDay >= DayOf(now)
                                   /\ ~doc.active
                                  THEN TRUE ELSE @]
  /\ Finish(p, Res("topped_up", None, 0))
  /\ UNCHANGED <<now, txns, uniqueIdx, faults, lock, batch, usedNonces, cache, loadedAt>>

\* POST /payments (lines 18-40): customer, plan, the customer's active
\* subscription in the mess; the plan is the one the subscription was
\* created from.  Without an active subscription the handler creates another
\* subscription document, which is not followed here.
RenewStart(p) ==
  /\ CanStart(p)
  /\ \E c \in CustomerIds :
       LET r == [NewReq(p) EXCEPT !.path = "renew", !.tok = [cust |-> c, valid |-> TRUE]]
           found == {s \in ActiveSubs(c) : subs[s].messId = StaffMess}
       IN IF found = {}
            THEN Goto(p, "renew_create", r)
            ELSE \E s \in found :
                   Goto(p, "renew_save",
                        [r EXCEPT !.sub = s, !.doc = Loaded(s),
                                  !.count = Sum4(subs[s].planAllocations)])
  /\ UNCHANGED <<now, subs, txns, uniqueIdx, faults, lock, batch,
                 usedNonces, cache, loadedAt>>

\* lines 41-66: add the plan's allocations and meal count to the loaded
\* values, new end date, markModified('mealBalances'), save()
RenewSave(p) ==
  /\ pc[p] = "renew_save"
  /\ lock[req[p].sub] = None
  /\ LET s == req[p].sub
         doc == req[p].doc
     IN subs' = [subs EXCEPT
                  ![s].mealBalances = [m \in MealTypes |->
                                         doc.mealBalances[m] + subs[s].planAllocations[m]],
                  ![s].mealsRemaining = doc.mealsRemaining + req[p].count,
                  ![s].mealsTotal = doc.mealsTotal + req[p].count,
                  ![s].endDay = DayOf(now) + 1]
  /\ Finish(p, Res("renewed", None, 0))
  /\ UNCHANGED <<now, txns, uniqueIdx, faults, lock, batch, usedNonces, cache, loadedAt>>

InitTopup == InitCommon /\ now = T0 /\ faults = 0

NextTopup ==
  \/ \E p \in Procs : TopupStart(p)
  \/ \E p \in Procs : TopupSave(p)
  \/ \E p \in Procs : RenewStart(p)
  \/ \E p \in Procs : RenewSave(p)
  \/ \E p \in Procs : LiveStart(p)
  \/ \E p \in Procs : LiveSub(p)
  \/ \E p \in Procs : LiveDup(p)
  \/ \E p \in Procs : LiveDec(p)
  \/ \E p \in Procs : LiveTxn(p)
  \/ \E p \in Procs : LiveNotify(p)
  \/ \E p \in Procs : MSStart(p)
  \/ \E p \in Procs : MSDup(p)
  \/ \E p \in Procs : MSToday(p)
  \/ \E p \in Procs : MSSub(p)
  \/ \E p \in Procs : MSDec(p)
  \/ \E p \in Procs : MSDeact(p)
  \/ \E p \in Procs : MSTxn(p)

SpecTopup == InitTopup /\ [][NextTopup]_vars



\* ================================================================ properties
C1Valid == [cust |-> "c1", valid |-> TRUE]

\* no success was recorded before the requests or the batch of this behaviour
NoHistory == \A i \in DOMAIN txns : txns[i].timestamp # Yesterday

Succeeded(p) == req[p].res.status = "success" /\ req[p].res.reason # "idempotent"

DenialReasons == {NoRemaining(m) : m \in MealTypes} \cup {"no_meals_remaining", "duplicate_scan"}

Denied(p) ==
  \/ req[p].res.reason \in DenialReasons /\ req[p].res.status \notin {"success", "rejected"}
  \/ req[p].res.status = "success" /\ req[p].res.reason = "idempotent"

\* C1: with a lunch balance of exactly 1 (and no lunch redeemed before), two
\* overlapping attempts for the same customer and meal type, both through POST
\* /scan or both through services/scanCore processScan, end with exactly one
\* success, one denial
\* (no meals remaining or duplicate), and the lunch balance at 0.
C1_ExactlyOneSuccess ==
  ( /\ \A p \in Procs : /\ pc[p] = "done"
                         /\ req[p].path \in {"live", "svc"}
                         /\ req[p].tok = C1Valid
                         /\ req[p].mealType = "lunch"
    /\ req["p1"].path = req["p2"].path
    /\ ~req["p2"].after
    /\ NoHistory
    /\ subs["s1"].planAllocations["lunch"] = 1
    /\ subs["s1"].mealsTotal = 1
    /\ ~subs["s1"].pausedAt )
  => /\ \E p \in Procs : Succeeded(p) /\ \A q \in Procs \ {p} : Denied(q)
     /\ subs["s1"].mealBalances["lunch"] = 0
     /\ subs["s1"].mealsRemaining = 0

\* C2: in every reachable state every per-meal-type balance of every
\* subscription is at least 0, whatever the interleaving of the scan paths.
C2_BalancesNonNegative ==
  \A s \in SubIds, m \in MealTypes : subs[s].mealBalances[m] >= 0

\* two overlapping requests on paths that decrement the lunch balance have
\* both been answered, one of them lost the conditional update, the balance is 0
C2_Witness ==
  /\ \A p \in Procs : pc[p] = "done" /\ req[p].path \in {"live", "manual", "cust"}
                        /\ req[p].mealType = "lunch"
  /\ ~req["p2"].after
  /\ \E p \in Procs : Succeeded(p)
  /\ \E p \in Procs : req[p].res = Res("failed", NoRemaining("lunch"), 0)
  /\ subs["s1"].planAllocations["lunch"] > 0
  /\ subs["s1"].mealBalances["lunch"] = 0

\* C3: a successful redemption (POST /scan or MealScanner, first request of
\* the behaviour) has decreased the balance of its meal type by exactly 1 and
\* mealsRemaining by exactly 1, and left the other balances as they were.
C3_SuccessDecrementsBoth ==
  ( /\ pc["p1"] = "done" /\ pc["p2"] = "idle"
    /\ req["p1"].path \in {"live", "ms"}
    /\ Succeeded("p1") )
  => LET s == subs["s1"]
         mt == req["p1"].mealType
     IN /\ s.mealBalances[mt] = s.planAllocations[mt] - 1
        /\ s.mealsRemaining = s.mealsTotal - 1
        /\ \A m \in MealTypes \ {mt} : s.mealBalances[m] = s.planAllocations[m]

\* the labels a request has after its conditional decrement
AfterDecrement == {"live_txn", "live_notify", "ms_deact", "ms_txn", "svc_txn", "cust_txn", "man_txn",
                   "idem_txn", "idem_deact", "idem_retry", "rb_txn", "done"}

Balances(s) == <<subs[s].mealBalances, subs[s].mealsRemaining, subs[s].active>>

\* C4: a step that answers a request with anything but a success from a
\* point before (or at a failed) conditional decrement leaves the per-type
\* balances, mealsRemaining and the active flag of every subscription unchanged.
C4_DenialLeavesBalances ==
  [][\A p \in Procs :
       ( /\ pc[p] \notin AfterDecrement
         /\ pc'[p] = "done"
         /\ req'[p].res.status # "success" )
       => \A s \in SubIds : Balances(s)' = Balances(s)]_vars

\* a request lost the conditional update of POST /scan and was denied while
\* the subscription is still active with meals of another type left
C4_Witness ==
  /\ \E p \in Procs : /\ pc[p] = "done" /\ req[p].path = "live"
                        /\ req[p].res = Res("failed", NoRemaining("lunch"), 0)
  /\ subs["s1"].active
  /\ subs["s1"].mealsRemaining > 0

\* C5: when the second request repeats, after the first one has succeeded, the
\* same credential and options on the same path, its result references the
\* transaction of the first and no balance has been decremented twice.
C5_ReplayReturnsSameTransaction ==
  ( /\ \A p \in Procs : pc[p] = "done" /\ req[p].path \in {"idem", "live", "ms"}
    /\ req["p2"].after
    /\ Succeeded("p1")
    /\ req["p2"].path = req["p1"].path
    /\ req["p2"].tok = req["p1"].tok
    /\ req["p2"].override = req["p1"].override
    /\ (req["p1"].path = "idem" => req["p2"].mealType = req["p1"].mealType) )
  => /\ req["p2"].res.txn = req["p1"].res.txn
     /\ subs["s1"].mealsTotal - subs["s1"].mealsRemaining <= 1
     /\ \A m \in MealTypes :
          subs["s1"].planAllocations[m] - subs["s1"].mealBalances[m] <= 1

\* ---------------------------------------------------------- offline batch
\* no storage call has failed so far
NoFaultYet == faults = MaxFaults

\* C6: a batch of two scans of the same customer stamped T and T+30s, in
\* either submission order, processed in the lunch window for an eligible
\* subscription with storage healthy, answers the T scan with success and the
\* T+30s scan with the denial duplicate_scan.
C6_SortedReplay ==
  ( /\ batch.state = "done" /\ batch.round = 1
    /\ batch.scans = <<[tok |-> C1Valid, cts |-> T0], [tok |-> C1Valid, cts |-> T0 + 30]>>
    /\ now = T0 + 30
    /\ NoFaultYet
    /\ NoHistory
    /\ ~subs["s1"].pausedAt
    /\ subs["s1"].planAllocations["lunch"] >= 1 )
  => /\ batch.results[1].status = "success"
     /\ batch.results[2].status # "success"
     /\ batch.results[2].reason = "duplicate_scan"

DuplicateReasons == {"duplicate_scan", "already_scanned_today"}

\* C7: when a processed batch is submitted again, at any later time and with
\* storage healthy, replaying a scan that succeeded in the first submission
\* decrements no balance and is not answered with a second success.
C7_ResubmitIsDuplicate ==
  [][( /\ batch.state = "running" /\ batch.round = 2 /\ NoFaultYet
       /\ batch.i \in DOMAIN batch.first
       /\ batch.first[batch.i].status = "success" )
     => /\ \A s \in SubIds : /\ subs'[s].mealsRemaining = subs[s].mealsRemaining
                              /\ subs'[s].mealBalances = subs[s].mealBalances
        /\ Len(batch'.results) > Len(batch.results)
             => batch'.results[batch.i].status # "success"]_vars

\* C8: a batch is never abandoned part-way; when it has been answered there
\* is exactly one result per submitted scan.
C8_BatchNeverAborts ==
  /\ batch.state # "aborted"
  /\ batch.state = "done" => Len(batch.results) = Len(batch.scans)

\* C9: in the answer to a batch successCount + blockedCount + failedCount is
\* the number of scans of the batch.
C9_CountsPartition ==
  batch.state = "done"
    => batch.counts.successCount + batch.counts.blockedCount + batch.counts.failedCount
         = Len(batch.scans)

\* ------------------------------------------------------- order of denials
CustomerReasons == {"invalid_qr", "customer_not_found", "customer_inactive"}
SubscriptionReasons == {"no_active_subscription", "no_subscription"}
WindowReasons == {"outside_meal_window", "invalid_meal_window"}
NoMealsReasons == {NoRemaining(m) : m \in MealTypes} \cup {"no_meals_remaining"}

DenyReasons ==
  CustomerReasons \cup SubscriptionReasons \cup {"subscription_paused"} \cup WindowReasons
    \cup {"meal_type_not_allowed"} \cup DuplicateReasons \cup NoMealsReasons

\* the reasons of the first check that fails, in the order customer,
\* subscription, pause, meal window, plan restriction, duplicate, meals left,
\* for customer c (o: the meal window and plan checks are overridden);
\* {} when every check passes
FirstFailing(c, o) ==
  LET S == {s \in ActiveSubs(c) : subs[s].endDay >= DayOf(now)}
      mt == IF determineMealType(now) = None THEN "lunch" ELSE determineMealType(now)
  IN IF ~Customer[c].active THEN CustomerReasons
     ELSE IF S = {} THEN SubscriptionReasons
     ELSE LET s == CHOOSE x \in S : TRUE IN
       IF subs[s].pausedAt THEN {"subscription_paused"}
       ELSE IF determineMealType(now) = None /\ ~o THEN WindowReasons
       ELSE IF mt \notin subs[s].planMealTypes /\ ~o THEN {"meal_type_not_allowed"}
       ELSE IF SuccessIds(c, mt, now - doubleScanWindowSeconds, Forever) # {}
         THEN DuplicateReasons
       ELSE IF subs[s].mealBalances[mt] <= 0 \/ subs[s].mealsRemaining <= 0
         THEN NoMealsReasons
       ELSE {}

\* no other request is in flight while p runs
Alone(p) == IF p = "p1" THEN pc["p2"] = "idle" ELSE req'["p2"].after

\* C10: a request with a valid credential that runs alone through POST /scan,
\* MealScanner or services/scanCore and is answered with a deny reason gets
\* the reason of the first failing check of the fixed order.
C10_FirstFailingCheckWins ==
  [][\A p \in Procs :
       ( /\ pc[p] # "done" /\ pc'[p] = "done"
         /\ Alone(p)
         /\ req'[p].path \in {"live", "ms", "svc"}
         /\ req'[p].tok.valid
         /\ req'[p].res.reason \in DenyReasons
         /\ FirstFailing(req'[p].tok.cust, req'[p].override) # {} )
       => req'[p].res.reason \in FirstFailing(req'[p].tok.cust, req'[p].override)]_vars

\* -------------------------------------------------------------- credentials
\* the server's own MAC over the payload segment as it was presented
MacMatches(tok) ==
  tok.form = "signed" /\ tok.sig = Hmac(HMAC_SECRET, tok.seg)

\* C11: no credential reaches the customer lookup of a redemption unless
\* its MAC was recomputed over the presented payload segment and matched
\* the presented signature: whenever POST /scan is about to look the
\* customer up, the credential it holds has been verified as valid.
C11_LookupOnlyAfterMac ==
  pc[CodecProc] = "live_lookup" =>
    /\ req[CodecProc].verified.valid
    /\ MacMatches(req[CodecProc].tok)

\* the credential was issued under the server's key and then its payload
\* segment was altered while its signature segment was kept
Forged(r) == r.tampered /\ MacMatches(r.orig) /\ r.tok.sig = r.orig.sig

\* C12: a credential that was valid and whose payload segment was then
\* changed in any way, its signature segment kept, is answered by every
\* verifier with an invalid result, the signature-mismatch one where the
\* verifier names its reason; no handler goes on with the altered payload.
C12_AlteredPayloadRejected ==
  LET r == req[CodecProc] IN
  (pc[CodecProc] \in {"live_lookup", "done"} /\ Forged(r)) =>
    /\ ~r.verified.valid
    /\ r.verified.payload = NoPayload
    /\ pc[CodecProc] = "done"
    /\ (r.path = "live" /\ r.orig.scheme = "hmac") =>
         /\ r.verified.error = "Signature mismatch"
         /\ r.res = Res("error", "INVALID_QR_SIGNATURE", 0)
    /\ (r.path = "generator" /\ r.orig.scheme = "hmac") =>
         r.verified.error = "Invalid signature"
    /\ r.path = "jwt" => r.verified.error = "Invalid QR code"

\* POST /scan has refused a server-issued credential whose expiry was
\* pushed into the future by its holder
C12_Witness ==
  LET r == req[CodecProc] IN
  /\ pc[CodecProc] = "done"
  /\ Forged(r)
  /\ r.path = "live"
  /\ r.orig.scheme = "hmac"
  /\ r.orig.seg.json.expiresAt = Yesterday
  /\ r.tok.seg.json.expiresAt = T0 + DaySecs
  /\ r.verified.error = "Signature mismatch"

\* the credential carries an expiry time and it has passed
Expired(tok, t) ==
  tok.seg.json.expiresAt # 0 /\ t > tok.seg.json.expiresAt

\* the verifier is given a credential of its own format whose MAC matches
Authentic(r) ==
  /\ MacMatches(r.tok)
  /\ r.tok.scheme = (IF r.path = "jwt" THEN "jwt" ELSE "hmac")

\* C13: a credential of customer c1 whose MAC matches and whose expiry time
\* has passed is rejected as expired, unless the verifier was called in the mode that
\* waives expiry (isAdmin), in which it is accepted; a JWT credential whose
\* type is not 'qr_scan' is rejected for its type; so POST /scan never
\* goes on to the customer lookup with an expired credential.
C13_ExpiredAndWrongTypeRejected ==
  LET r == req[CodecProc] IN
  (/\ pc[CodecProc] \in {"live_lookup", "done"}
   /\ r.path \in {"live", "generator", "jwt"}
   /\ Authentic(r)
   /\ r.tok.seg.json.qrCodeId = QrCodeOf["c1"]) =>
    /\ (Expired(r.tok, now) /\ ~(r.path = "generator" /\ r.isAdmin)) =>
         /\ pc[CodecProc] = "done"
         /\ ~r.verified.valid
         /\ r.verified.error \in {"Token expired", "QR code expired"}
    /\ (r.path = "generator" /\ r.isAdmin) => r.verified.valid
    /\ (r.path = "jwt" /\ ~Expired(r.tok, now)
          /\ r.tok.seg.json.type # "qr_scan") =>
         /\ ~r.verified.valid
         /\ r.verified.error = "Invalid QR token type"

\* ---------------------------------------------------------------- resolver
MealOrder == <<"breakfast", "lunch", "dinner">>

\* the positions in the fixed order whose window contains the time of day
Containing(t, windows) ==
  {i \in 1..3 : /\ windows[MealOrder[i]] # NoWindow
                /\ windows[MealOrder[i]].start <= MinuteOfDay(t)
                /\ MinuteOfDay(t) <= windows[MealOrder[i]].end}

FirstContaining(t, windows) ==
  IF Containing(t, windows) = {} THEN None
  ELSE MealOrder[CHOOSE i \in Containing(t, windows) :
                   \A j \in Containing(t, windows) : i <= j]

\* C14: the resolver answers the first of breakfast, lunch, dinner whose
\* configured window contains the time of day, both ends included, and
\* none when no window contains it (lunch 12:00-15:00: lunch at 12:00 and
\* 15:00, none at 11:59 and 15:01).
C14_ResolveFirstContainingWindow ==
  pc[CodecProc] = "resolved" =>
    req[CodecProc].mealType = FirstContaining(now, req[CodecProc].windows)

\* ------------------------------------------------- denials before decrement
\* reasons of the checks that come before the meal window check
EarlierReasons ==
  CustomerReasons \cup SubscriptionReasons
    \cup {"subscription_paused", "INVALID_QR_SIGNATURE"}

\* the subscription has lunches left: inside the lunch window it is served
HasLunches == subs["s1"].mealBalances["lunch"] > 0 /\ subs["s1"].mealsRemaining > 0

\* C15: while the clock is outside every configured meal window, a scan
\* through POST /scan or MealScanner without an override, against a
\* subscription that has meals left, decrements no balance, does not
\* succeed, and, unless an earlier check has denied it, is denied for the
\* meal window.
C15_OutsideWindowDenied ==
  [][\A p \in Procs :
       ( /\ pc'[p] # pc[p]
         /\ req'[p].path \in {"live", "ms"}
         /\ ~req'[p].override
         /\ HasLunches
         /\ determineMealType(now) = None )
       => /\ \A s \in SubIds : Balances(s)' = Balances(s)
          /\ pc'[p] = "done" =>
               /\ req'[p].res.status # "success"
               /\ req'[p].res.reason \in EarlierReasons \cup WindowReasons]_vars

\* C16: a subscription that carries a pause marker is not decremented by
\* any step of a scan of its customer through POST /scan or MealScanner,
\* no such scan succeeds, and one that would be served without the marker
\* is denied with subscription_paused.
C16_PausedNeverDecremented ==
  [][\A s \in SubIds : \A p \in Procs :
       ( /\ subs[s].pausedAt
         /\ pc'[p] # pc[p]
         /\ req'[p].path \in {"live", "ms"}
         /\ req'[p].tok.cust = subs[s].customerId )
       => /\ Balances(s)' = Balances(s)
          /\ pc'[p] = "done" =>
               /\ req'[p].res.status # "success"
               /\ (req'[p].tok.valid /\ HasLunches /\ determineMealType(now) = "lunch"
                     /\ SuccessIds(req'[p].tok.cust, "lunch", DayStart(now), Forever) = {})
                    => req'[p].res.reason = "subscription_paused"]_vars

\* the resolved meal type is not among the types of the plan of the
\* customer's subscription, which is otherwise fit to be served
PlanExcludes(p, s) ==
  /\ req'[p].tok.valid
  /\ req'[p].tok.cust = subs[s].customerId
  /\ Customer[subs[s].customerId].active
  /\ ~req'[p].override
  /\ subs[s].active /\ ~subs[s].pausedAt /\ subs[s].mealsRemaining > 0
  /\ determineMealType(now) # None
  /\ determineMealType(now) \notin subs[s].planMealTypes
  /\ SuccessIds(subs[s].customerId, determineMealType(now), DayStart(now), Forever) = {}

\* C17: when the meal type resolved from the clock is not among the meal
\* types of the subscription's plan, a scan through POST /scan or
\* MealScanner changes no balance of the subscription and is answered with
\* the denial meal_type_not_allowed.
C17_PlanRestrictionDenies ==
  [][\A s \in SubIds : \A p \in Procs :
       ( /\ pc'[p] # pc[p]
         /\ req'[p].path \in {"live", "ms"}
         /\ PlanExcludes(p, s) )
       => /\ Balances(s)' = Balances(s)
          /\ pc'[p] = "done" =>
               /\ req'[p].res.status \in {"blocked", "failed"}
               /\ req'[p].res.reason = "meal_type_not_allowed"]_vars

\* ------------------------------------------------------------ exhaustion
\* every request so far went through POST /scan or MealScanner and has
\* been answered
OnlyLiveOrMs ==
  \A q \in Procs : pc[q] = "idle" \/ (pc[q] = "done" /\ req[q].path \in {"live", "ms"})

\* C18: once a scan through POST /scan or MealScanner has succeeded and
\* has been answered, a subscription whose mealsRemaining it brought to
\* zero is inactive, and an attempt that starts afterwards is denied for
\* the missing subscription or the missing meals.
C18_ExhaustedIsDeactivated ==
  (OnlyLiveOrMs /\ Succeeded("p1") /\ subs["s1"].mealsRemaining = 0) =>
    /\ ~subs["s1"].active
    /\ (pc["p2"] = "done" /\ req["p2"].after /\ req["p2"].tok = C1Valid) =>
         /\ req["p2"].res.status # "success"
         /\ req["p2"].res.reason \in SubscriptionReasons \cup NoMealsReasons

\* --------------------------------------------------------------- notifier
\* C20: once POST /scan has applied the decrement and saved the success
\* transaction, whatever happens to the notification and the socket event,
\* the request is answered success with that transaction, and the balances
\* and the transactions stay as they were written.
C20_NotifierFailureKeepsSuccess ==
  [][\A p \in Procs :
       (pc[p] = "live_notify" /\ pc'[p] = "done") =>
         /\ subs' = subs
         /\ txns' = txns
         /\ req'[p].res = Res("success", None, req[p].saved)]_vars

\* ------------------------------------------------------------ audit trail
\* the MealTransaction records written today
AttemptRecords == {i \in DOMAIN txns : txns[i].timestamp # Yesterday}

\* C19: when one attempt of an active customer of the staff member's mess
\* has gone through POST /scan or MealScanner and has been answered
\* success, blocked, failed or duplicate, exactly one MealTransaction has
\* been written for it, for that customer and with that status.
C19_OneRecordPerAttempt ==
  ( /\ pc["p1"] = "done" /\ pc["p2"] = "idle"
    /\ req["p1"].path \in {"live", "ms"}
    /\ req["p1"].tok.valid
    /\ Customer[req["p1"].tok.cust].active
    /\ Customer[req["p1"].tok.cust].messId = StaffMess
    /\ req["p1"].res.status \in TxnStatusEnum )
  => /\ Cardinality(AttemptRecords) = 1
     /\ \A i \in AttemptRecords :
          /\ txns[i].customerId = req["p1"].tok.cust
          /\ txns[i].status = req["p1"].res.status

\* C21: the customer lookup is scoped to the scanning staff member's mess:
\* no step of any redemption, single or batch, changes the balances of a
\* subscription whose customer belongs to another mess.
C21_NoForeignDecrement ==
  [][\A s \in SubIds :
       Customer[subs[s].customerId].messId # StaffMess => Balances(s)' = Balances(s)]_vars

\* C22: a deep link's nonce passes the replay check of confirm at most once:
\* of two confirm requests carrying the same nonce only one gets past the
\* check, a confirm made after it and while the link is still valid is
\* answered LINK_USED (requests are numbered in order of arrival), and the
\* meals debited never exceed the number of nonces that passed.
PassedReplayCheck(p) ==
  /\ req[p].path = "link"
  /\ \/ pc[p] = "link_scan"
     \/ pc[p] = "done" /\ req[p].res.reason \in {"WRONG_MESS", "INVALID_QR_TOKEN", "QR_EXPIRED"}
NonceIn(p) == B64Decode(req[p].tok.seg).nonce
Debited(s) == subs[s].mealsTotal - subs[s].mealsRemaining
UsableSettings == (StoredSettings \ {NoSettings}) \cup {getDefaultSettings}
C23_GetSettingsNeverFails ==
  [][\A p \in Procs :
       (pc[p] # "done" /\ pc'[p] = "done" /\ req'[p].path = "settings")
         => /\ req'[p].res.status \in {"cached", "loaded", "fallback"}
            /\ req'[p].res.reason \in UsableSettings
            /\ req'[p].res.status = "fallback"
                 => req'[p].res.reason = (IF cache # NoSettings THEN cache ELSE getDefaultSettings)]_vars
C23_Witness ==
  /\ pc["p1"] = "done" /\ req["p1"].res.status = "loaded"
  /\ pc["p2"] = "done" /\ req["p2"].after /\ req["p2"].res.status = "fallback"
  /\ req["p2"].res.reason # getDefaultSettings /\ req["p2"].res.reason = cache
  /\ now - loadedAt >= TTL

\* C24: two overlapping getOrCreateScan calls for the same customer and meal
\* type inside one meal window (no success recorded before them, two meals
\* or more on the subscription, the idempotency_key index built) end with
\* the subscription debited at most once and with both calls returning the
\* same success transaction, one as a new scan and one as idempotent.
BothIdem ==
  /\ \A p \in Procs : pc[p] = "done" /\ req[p].path = "idem"
  /\ req["p1"].mealType = req["p2"].mealType
  /\ ~req["p2"].after
  /\ txns = <<>> \/ txns[1].timestamp # Yesterday
  /\ \A s \in SubIds : subs[s].mealsTotal >= 2
  /\ uniqueIdx
C24_ConcurrentIdempotentScans ==
  BothIdem =>
    /\ \A s \in SubIds : Debited(s) <= 1
    /\ \A p \in Procs : req[p].res.status = "success"
    /\ req["p1"].res.txn = req["p2"].res.txn
    /\ \E p \in Procs : req[p].res.reason = "idempotent"

\* C25: a redemption (POST /scan, MealScanner, idempotent service; no admin
\* override, made inside the window of its meal type, its sibling going
\* through the same handler) whose conditional decrement fails is answered
\* with the
\* idempotent result referencing the sibling's success transaction when one
\* is recorded for the same customer and meal type today, and with a
\* no-meals-remaining reason only when there is none.
SiblingSuccess(p) == SuccessIds(req[p].tok.cust, req[p].mealType, DayStart(now), Forever)
C25_FailedDecrementReturnsSibling ==
  [][\A p \in Procs :
       ( /\ pc[p] \in {"live_dec", "ms_dec", "idem_recheck"}
         /\ pc'[p] = "done"
         /\ subs' = subs
         /\ ~req[p].override
         /\ \A q \in Procs : req[q].path = req[p].path
         /\ now >= windowStart(req[p].mealType, now)
         /\ now <= windowEnd(req[p].mealType, now) )
         => IF SiblingSuccess(p) # {}
              THEN /\ req'[p].res.status = "success"
                   /\ req'[p].res.reason = "idempotent"
                   /\ req'[p].res.txn \in SiblingSuccess(p)
              ELSE req'[p].res.reason \in NoMealsReasons \cup {"NO_MEALS_REMAINING"}]_vars

\* C26: whenever no redemption is in flight, for every subscription the
\* number of meals debited by the scans of this behaviour equals the number
\* of success MealTransaction records they wrote for it.
Quiescent == (\A p \in Procs : pc[p] \in {"idle", "done"}) /\ batch.state # "running"
SuccessesSince(s, t) ==
  Cardinality({i \in DOMAIN txns : /\ txns[i].subscriptionId = s
                                   /\ txns[i].status = "success"
                                   /\ txns[i].timestamp >= t})
C26_DebitsMatchSuccessRecords ==
  Quiescent => \A s \in SubIds : Debited(s) = SuccessesSince(s, T0)

\* C27: two overlapping scans of one customer for one meal type on one day
\* through the handlers with the same-day duplicate policy (POST /scan, POST
\* /manual, MealScanner; no admin override) leave at most one success
\* transaction for that customer, meal type and day and at most one
\* decrement.
SameDayPaths == {"live", "manual", "ms"}
OverlappingSameDay ==
  /\ \A p \in Procs : pc[p] = "done" /\ req[p].path \in SameDayPaths /\ req[p].tok = C1Valid
  /\ ~req["p2"].after
  /\ req["p1"].mealType = req["p2"].mealType
  /\ \A p \in Procs : req[p].path = "ms" => ~req[p].override
C27_OneSuccessPerDay ==
  OverlappingSameDay =>
    /\ Cardinality(SuccessIds("c1", req["p1"].mealType, DayStart(now), DayEnd(now))) <= 1
    /\ \A s \in SubIds : Debited(s) <= 1

\* C28: in every reachable state the aggregate mealsRemaining of every
\* subscription is at least 0, whatever the interleaving of redemptions
\* through the scan routes (POST /scan, /scan-mess-qr, /manual and the batch
\* route).
RoutePaths == {"live", "cust", "manual", "rb"}
C28_AggregateNonNegative ==
  (\A p \in Procs : req[p].path \in RoutePaths \cup {None})
    => \A s \in SubIds : subs[s].mealsRemaining >= 0

\* C29: no redemption (POST /scan, POST /manual, batch route) decrements a
\* subscription whose active flag is false at the time of the write, also
\* when the deactivation job or an admin update has deactivated it after the
\* redemption read it.
C29_NoDecrementOfInactive ==
  [][\A s \in SubIds :
       subs'[s].mealsRemaining < subs[s].mealsRemaining => subs[s].active]_vars

\* C30: a top-up or renewal and a redemption (POST /scan or MealScanner) of
\* the same subscription that overlap lose neither update: when both have
\* been answered, mealsRemaining is the value before both plus the meals
\* added minus the one meal redeemed.
C30_TopupAndRedemptionBothCount ==
  \A p, q \in Procs :
    ( /\ pc[p] = "done" /\ pc[q] = "done"
      /\ req[p].res.status \in {"topped_up", "renewed"}
      /\ req[q].path \in {"live", "ms"} /\ Succeeded(q) )
      => \A s \in SubIds :
           subs[s].mealsRemaining = Sum4(subs[s].planAllocations) + req[p].count - 1

TypeOK ==
  /\ now \in Times
  /\ faults \in 0..MaxFaults
  /\ \A p \in Procs : pc[p] \in STRING
====
